---- MODULE Spec2Model ----
(***************************************************************************)
(* Qi Men Dun Jia chart engine (core/paipan_engine.py, core/models.py).    *)
(*                                                                         *)
(* Naming.  The source works on Chinese one-character names; the module    *)
(* writes them in pinyin:                                                  *)
(*   stems    Jia Yi Bing Ding Wu Ji Geng Xin Ren Gui      (capitalised)   *)
(*   branches zi chou yin mao chen si wu wei shen you xu hai (lower case)  *)
(*   stars    Peng Ren_ Chong Fu Ying Rui Zhu Xin_ Qin                     *)
(*   gates    Xiu Sheng Shang Du Jing3 Si Jing1 Kai                        *)
(*   gods     fu she yin_ he hu wu_ di tian                                *)
(*   eras     shang zhong xia;  polarity  yang / yin                       *)
(* Python lists are 0-based: At(s, i) reads s[i].                          *)
(***************************************************************************)
EXTENDS Integers, Sequences, FiniteSets, TLC

VARIABLES
    doc,        \* the reference-data document found at data_file_path
    calendar,   \* the calendar resolver: parsed moment -> solar term, pillars
    engine,     \* the PaiPanEngine object: whether it exists, and self.data
    last,       \* the last paipan call: argument, exception, steps, result
    seen,       \* per valid timestamp, the ChartResult its first cast returned
    held,       \* a ChartResult whose palaces a caller filled by hand
    built,      \* the last _build_index call on held: the index it returned
    threads,    \* per thread, the cast it runs: its position and its locals
    merge,      \* one branch's annotation list handed to the merge pass
    the_case    \* a Case object: its layers, the active index, the last call

vars == <<doc, calendar, engine, last, seen, held, built, threads, merge, the_case>>

----------------------------------------------------------------------------
(* Python helpers *)

At(s, i) == s[i + 1]

Range(s) == {s[i] : i \in 1..Len(s)}

\* list.index(x): the 0-based position of the first x, -1 standing for
\* the ValueError list.index raises when x is absent.
IndexOf(s, x) ==
    IF \E i \in 1..Len(s) : s[i] = x
    THEN (CHOOSE i \in 1..Len(s) : s[i] = x /\ \A j \in 1..(i - 1) : s[j] # x) - 1
    ELSE -1

\* An operation either returns a value or raises.
Ok(v) == [exc |-> "", val |-> v]
Raise(e) == [exc |-> e, val |-> <<>>]

----------------------------------------------------------------------------
(* Names *)

TianGan == <<"Jia", "Yi", "Bing", "Ding", "Wu", "Ji", "Geng", "Xin", "Ren", "Gui">>
DiZhiCn == <<"zi", "chou", "yin", "mao", "chen", "si", "wu", "wei", "shen", "you", "xu", "hai">>
YuanCn == <<"shang", "zhong", "xia">>
LiuYi == <<"Wu", "Ji", "Geng", "Xin", "Ren", "Gui">>
JiuXingCn == {"Peng", "Ren_", "Chong", "Fu", "Ying", "Rui", "Zhu", "Xin_", "Qin"}

\* calendar_utils.SOLAR_TERMS, in order of solar longitude 0, 15, .. 345
SOLAR_TERMS ==
    <<"ChunFen", "QingMing", "GuYu", "LiXia", "XiaoMan", "MangZhong",
      "XiaZhi", "XiaoShu", "DaShu", "LiQiu", "ChuShu", "BaiLu",
      "QiuFen", "HanLu", "ShuangJiang", "LiDong", "XiaoXue", "DaXue",
      "DongZhi", "XiaoHan", "DaHan", "LiChun", "YuShui", "JingZhe">>

----------------------------------------------------------------------------
(* The reference-data document (data.json) *)

\* entry i (0..59) of the sexagenary table
Jiazi(i) ==
    LET head == i - (i % 10)
    IN  [gan  |-> At(TianGan, i % 10),
         zhi  |-> At(DiZhiCn, i % 12),
         yuan |-> At(YuanCn, (i \div 5) % 3),
         xun  |-> [zhi |-> At(DiZhiCn, head % 12), jun |-> At(LiuYi, i \div 10)],
         kong |-> <<At(DiZhiCn, (head + 10) % 12), At(DiZhiCn, (head + 11) % 12)>>]

LiuShiJiaZi == [i \in 1..60 |-> Jiazi(i - 1)]

JuRow(yy, a, b, c) == [yinyang |-> yy, jv |-> [shang |-> a, zhong |-> b, xia |-> c]]

JieQiJuShu ==
    [t \in Range(SOLAR_TERMS) |->
        CASE t = "DongZhi"     -> JuRow("yang", 1, 7, 4)
          [] t = "XiaoHan"     -> JuRow("yang", 2, 8, 5)
          [] t = "DaHan"       -> JuRow("yang", 3, 9, 6)
          [] t = "LiChun"      -> JuRow("yang", 8, 5, 2)
          [] t = "YuShui"      -> JuRow("yang", 9, 6, 3)
          [] t = "JingZhe"     -> JuRow("yang", 1, 7, 4)
          [] t = "ChunFen"     -> JuRow("yang", 3, 9, 6)
          [] t = "QingMing"    -> JuRow("yang", 4, 1, 7)
          [] t = "GuYu"        -> JuRow("yang", 5, 2, 8)
          [] t = "LiXia"       -> JuRow("yang", 4, 1, 7)
          [] t = "XiaoMan"     -> JuRow("yang", 5, 2, 8)
          [] t = "MangZhong"   -> JuRow("yang", 6, 3, 9)
          [] t = "XiaZhi"      -> JuRow("yin", 9, 3, 6)
          [] t = "XiaoShu"     -> JuRow("yin", 8, 2, 5)
          [] t = "DaShu"       -> JuRow("yin", 7, 1, 4)
          [] t = "LiQiu"       -> JuRow("yin", 2, 5, 8)
          [] t = "ChuShu"      -> JuRow("yin", 1, 4, 7)
          [] t = "BaiLu"       -> JuRow("yin", 9, 3, 6)
          [] t = "QiuFen"      -> JuRow("yin", 7, 1, 4)
          [] t = "HanLu"       -> JuRow("yin", 6, 9, 3)
          [] t = "ShuangJiang" -> JuRow("yin", 5, 8, 2)
          [] t = "LiDong"      -> JuRow("yin", 6, 9, 3)
          [] t = "XiaoXue"     -> JuRow("yin", 5, 8, 2)
          [] t = "DaXue"       -> JuRow("yin", 4, 7, 1)]

Entry(cn, guxiang) == [cn |-> cn, guxiang |-> guxiang]

JiuXing ==
    <<Entry("Peng", 1), Entry("Rui", 2), Entry("Chong", 3), Entry("Fu", 4), Entry("Qin", 5),
      Entry("Xin_", 6), Entry("Zhu", 7), Entry("Ren_", 8), Entry("Ying", 9)>>

BaMen ==
    <<Entry("Xiu", 1), Entry("Si", 2), Entry("Shang", 3), Entry("Du", 4),
      Entry("Kai", 6), Entry("Jing1", 7), Entry("Sheng", 8), Entry("Jing3", 9)>>

DiZhi == [i \in 1..12 |-> [cn |-> DiZhiCn[i]]]

TableNames == {"liuShiJiaZi", "jieQiJuShu", "jiuXing", "baMen", "diZhi"}

\* A document: absent, not well-formed JSON, or JSON whose root is an
\* object holding some of the named tables (or is not an object at all).
ValidDoc ==
    [kind |-> "json", root |-> "object", keys |-> TableNames,
     liuShiJiaZi |-> LiuShiJiaZi, jieQiJuShu |-> JieQiJuShu,
     jiuXing |-> JiuXing, baMen |-> BaMen, diZhi |-> DiZhi]

MissingDoc == [ValidDoc EXCEPT !.kind = "missing"]
MalformedDoc == [ValidDoc EXCEPT !.kind = "malformed"]
ArrayDoc == [ValidDoc EXCEPT !.root = "array", !.keys = {}]
WithoutTable(k) == [ValidDoc EXCEPT !.keys = TableNames \ {k}]

Without(s, x) == SelectSeq(s, LAMBDA e : e # x)

\* well-formed documents holding all five tables, one of them defective
DocNoJiaZi == [ValidDoc EXCEPT !.liuShiJiaZi = Without(LiuShiJiaZi, Jiazi(0))]
DocNoTerm ==
    [ValidDoc EXCEPT !.jieQiJuShu = [t \in Range(SOLAR_TERMS) \ {"DongZhi"} |-> JieQiJuShu[t]]]
DocNoEra ==
    [ValidDoc EXCEPT !.jieQiJuShu =
        [t \in Range(SOLAR_TERMS) |->
            [yinyang |-> JieQiJuShu[t].yinyang,
             jv |-> [y \in {"shang", "xia"} |-> JieQiJuShu[t].jv[y]]]]]
DocBadJun ==
    [ValidDoc EXCEPT !.liuShiJiaZi =
        [i \in 1..60 |-> IF i <= 10 THEN [LiuShiJiaZi[i] EXCEPT !.xun.jun = "Jia"]
                                    ELSE LiuShiJiaZi[i]]]
DocNoQin == [ValidDoc EXCEPT !.jiuXing = Without(JiuXing, Entry("Qin", 5))]
DocNoPeng == [ValidDoc EXCEPT !.jiuXing = Without(JiuXing, Entry("Peng", 1))]
DocNoXiu == [ValidDoc EXCEPT !.baMen = Without(BaMen, Entry("Xiu", 1))]
DocNoHai == [ValidDoc EXCEPT !.diZhi = Without(DiZhi, [cn |-> "hai"])]

DefectDocs ==
    {MissingDoc, MalformedDoc, ArrayDoc} \cup {WithoutTable(k) : k \in TableNames}
    \cup {DocNoJiaZi, DocNoTerm, DocNoEra, DocBadJun, DocNoQin, DocNoPeng, DocNoXiu, DocNoHai}

----------------------------------------------------------------------------
(* PaiPanEngine: the lookups of steps 3 to 5 *)

LUO_SHU_PATH == <<1, 8, 3, 4, 9, 2, 7, 6>>

\* self.data[key]: TypeError when the JSON root is no object, KeyError
\* when the object has no such table.
Table(data, key) ==
    IF data.root # "object" THEN Raise("TypeError")
    ELSE IF key \notin data.keys THEN Raise("KeyError")
    ELSE Ok(data[key])

\* next(e for e in s if P(e)), hits being the e of s with P(e), as a list
\* of at most one element
First(hits) == IF hits = <<>> THEN <<>> ELSE <<Head(hits)>>

_find_yuan(data, ri_gan, ri_zhi) ==
    LET t == Table(data, "liuShiJiaZi") IN
    IF t.exc # "" THEN t
    ELSE LET hit == First(SelectSeq(t.val, LAMBDA j : j.gan = ri_gan /\ j.zhi = ri_zhi))
         IN  IF hit = <<>> THEN Raise("ValueError") ELSE Ok(hit[1].yuan)

_find_ju_shu(data, jieqi, yuan) ==
    LET t == Table(data, "jieQiJuShu") IN
    IF t.exc # "" THEN t
    ELSE IF jieqi \notin DOMAIN t.val THEN Raise("KeyError")
    ELSE LET info == t.val[jieqi]
         IN  IF yuan \notin DOMAIN info.jv THEN Raise("KeyError")
             ELSE Ok([dun |-> info.yinyang, ju |-> info.jv[yuan]])

stems_order == <<"Wu", "Ji", "Geng", "Xin", "Ren", "Gui", "Ding", "Bing", "Yi">>

EmptyLists == [p \in 0..9 |-> <<>>]
EmptyNames == [p \in 0..9 |-> ""]

\* every stem dealt forward, whatever the polarity
di_pan_palace_forward(ju_shu_info, i) == ((ju_shu_info.ju + i - 1) % 9) + 1

\* the palace the i-th stem (i = 0..8) of stems_order is dealt to
di_pan_palace(ju_shu_info, i) ==
    IF ju_shu_info.dun = "yang"
    THEN ((ju_shu_info.ju + i - 1) % 9) + 1
    ELSE ((ju_shu_info.ju - i - 1 + 9) % 9) + 1

RECURSIVE di_pan_deal(_, _, _)
di_pan_deal(ju_shu_info, i, di_pan) ==
    IF i = Len(stems_order) THEN di_pan
    ELSE di_pan_deal(ju_shu_info, i + 1,
            [di_pan EXCEPT ![di_pan_palace(ju_shu_info, i)] = Append(@, At(stems_order, i))])

\* palace 5's stem moved to palace 2 where the code copies it
di_pan_moved(di_pan) ==
    IF di_pan[5] # <<>> THEN [di_pan EXCEPT ![2] = @ \o di_pan[5], ![5] = <<>>] ELSE di_pan

\* if di_pan[5]: di_pan[2].extend(di_pan[5])
di_pan_mirror(di_pan) ==
    IF di_pan[5] # <<>> THEN [di_pan EXCEPT ![2] = @ \o di_pan[5]] ELSE di_pan

_layout_di_pan(ju_shu_info) == di_pan_mirror(di_pan_deal(ju_shu_info, 0, EmptyLists))

_find_shi_chen_xun(data, shi_gan, shi_zhi) ==
    LET t == Table(data, "liuShiJiaZi") IN
    IF t.exc # "" THEN t
    ELSE LET hit == First(SelectSeq(t.val, LAMBDA j : j.gan = shi_gan /\ j.zhi = shi_zhi))
         IN  IF hit = <<>> THEN Raise("ValueError") ELSE Ok(hit[1].xun)

\* a scan from palace 9 down to palace 1
scan_di_pan_descending(target_stem, di_pan_stems) ==
    IF \E i \in 1..9 : target_stem \in Range(di_pan_stems[i])
    THEN CHOOSE i \in 1..9 : /\ target_stem \in Range(di_pan_stems[i])
                            /\ \A j \in (i + 1)..9 : target_stem \notin Range(di_pan_stems[j])
    ELSE -1

\* a scan that answers palace 1 where the code answers -1
scan_di_pan_default(target_stem, di_pan_stems) ==
    IF \E i \in 1..9 : target_stem \in Range(di_pan_stems[i])
    THEN CHOOSE i \in 1..9 : /\ target_stem \in Range(di_pan_stems[i])
                            /\ \A j \in 1..(i - 1) : target_stem \notin Range(di_pan_stems[j])
    ELSE 1

\* the lowest palace 1..9 listing the stem, -1 when no palace lists it
scan_di_pan(target_stem, di_pan_stems) ==
    IF \E i \in 1..9 : target_stem \in Range(di_pan_stems[i])
    THEN CHOOSE i \in 1..9 : /\ target_stem \in Range(di_pan_stems[i])
                            /\ \A j \in 1..(i - 1) : target_stem \notin Range(di_pan_stems[j])
    ELSE -1

_find_stem_palace(stem, di_pan_stems, shi_chen_xun) ==
    scan_di_pan(IF stem = "Jia" THEN shi_chen_xun.jun ELSE stem, di_pan_stems)

\* the palace the stem was dealt to: palace 5 where the scan meets the
\* copy in palace 2
dealt_palace(target_stem, di_pan_stems) ==
    IF target_stem \in Range(di_pan_stems[5]) THEN 5 ELSE scan_di_pan(target_stem, di_pan_stems)

\* the chief located from the palace the xun stem was dealt to
_find_zhi_fu_zhi_shi_dealt(data, shi_chen_xun, di_pan_stems) ==
    LET fu_tou_palace == dealt_palace(shi_chen_xun.jun, di_pan_stems)
        stars == Table(data, "jiuXing")
        gates == Table(data, "baMen")
    IN
    IF stars.exc # "" THEN stars
    ELSE IF gates.exc # "" THEN gates
    ELSE
      LET original_star == First(SelectSeq(stars.val, LAMBDA s : s.guxiang = fu_tou_palace))
          original_gate == First(SelectSeq(gates.val, LAMBDA g : g.guxiang = fu_tou_palace))
          qin == First(SelectSeq(stars.val, LAMBDA s : s.cn = "Qin"))
          si == First(SelectSeq(gates.val, LAMBDA g : g.guxiang = 2))
      IN
      IF fu_tou_palace = 5
      THEN IF qin = <<>> \/ si = <<>> THEN Raise("StopIteration")
           ELSE Ok([zhi_fu_star |-> qin, zhi_shi |-> si[1].cn, fu_tou_palace |-> fu_tou_palace])
      ELSE IF original_gate = <<>> THEN Raise("TypeError")
           ELSE Ok([zhi_fu_star |-> original_star, zhi_shi |-> original_gate[1].cn,
                    fu_tou_palace |-> fu_tou_palace])

\* returns (zhi_fu_star, zhi_shi_gate_cn, fu_tou_palace); zhi_fu_star is a
\* list of at most one catalog entry, the empty list standing for None
_find_zhi_fu_zhi_shi(data, shi_chen_xun, di_pan_stems) ==
    LET fu_tou_palace == scan_di_pan(shi_chen_xun.jun, di_pan_stems)
        stars == Table(data, "jiuXing")
        gates == Table(data, "baMen")
    IN
    IF stars.exc # "" THEN stars
    ELSE IF gates.exc # "" THEN gates
    ELSE
      LET original_star == First(SelectSeq(stars.val, LAMBDA s : s.guxiang = fu_tou_palace))
          original_gate == First(SelectSeq(gates.val, LAMBDA g : g.guxiang = fu_tou_palace))
          qin == First(SelectSeq(stars.val, LAMBDA s : s.cn = "Qin"))
          si == First(SelectSeq(gates.val, LAMBDA g : g.guxiang = 2))
      IN
      IF fu_tou_palace = 5
      THEN IF qin = <<>> \/ si = <<>> THEN Raise("StopIteration")
           ELSE Ok([zhi_fu_star |-> qin, zhi_shi |-> si[1].cn, fu_tou_palace |-> fu_tou_palace])
      ELSE IF original_gate = <<>> THEN Raise("TypeError")
           ELSE Ok([zhi_fu_star |-> original_star, zhi_shi |-> original_gate[1].cn,
                    fu_tou_palace |-> fu_tou_palace])

----------------------------------------------------------------------------
(* PaiPanEngine: the three flying-path layouts (steps 6 to 8) *)

\* A walk is the list of the assignments a layout's loop makes, in order:
\* [palace, item] (the star walk adds the star's home palace).

\* layout[palace] = item, assignment after assignment
RECURSIVE Place(_, _)
Place(layout, walk) ==
    IF walk = <<>> THEN layout
    ELSE Place([layout EXCEPT ![Head(walk).palace] = Head(walk).item], Tail(walk))

gods_order == <<"fu", "she", "yin_", "he", "hu", "wu_", "di", "tian">>

\* every god placed forward, whatever the polarity
ba_shen_palace_forward(ju_shu_info, path_index, i) == At(LUO_SHU_PATH, (path_index + i) % 8)

\* the path palace of the i-th god, i = 1..7
ba_shen_palace(ju_shu_info, path_index, i) ==
    IF ju_shu_info.dun = "yang"
    THEN At(LUO_SHU_PATH, (path_index + i) % 8)
    ELSE At(LUO_SHU_PATH, (path_index - i + 8) % 8)

ba_shen_walk(ju_shu_info, shi_gan_palace) ==
    LET path_index == IndexOf(LUO_SHU_PATH, shi_gan_palace)
    IN  <<[palace |-> shi_gan_palace, item |-> "fu"]>> \o
        [i \in 1..7 |-> [palace |-> ba_shen_palace(ju_shu_info, path_index, i),
                         item |-> At(gods_order, i)]]

_layout_ba_shen(shi_gan, di_pan_stems, ju_shu_info, shi_chen_xun) ==
    LET shi_gan_palace == _find_stem_palace(shi_gan, di_pan_stems, shi_chen_xun) IN
    IF shi_gan_palace = -1 THEN Raise("ValueError")
    ELSE IF IndexOf(LUO_SHU_PATH, shi_gan_palace) = -1 THEN Raise("ValueError")
    ELSE LET walk == ba_shen_walk(ju_shu_info, shi_gan_palace)
         IN  Ok([layout |-> Place(EmptyNames, walk), walk |-> walk])

stars_order_cn == <<"Peng", "Ren_", "Chong", "Fu", "Ying", "Rui", "Zhu", "Xin_">>

\* a star walk that runs backward along the path
tian_pan_step_backward(stars, start_star_index, path_start_index, i) ==
    LET current_star_cn == At(stars_order_cn, (start_star_index + i) % 8)
        current_star_obj == First(SelectSeq(stars, LAMBDA s : s.cn = current_star_cn))[1]
    IN  [palace |-> At(LUO_SHU_PATH, (path_start_index - i + 8) % 8),
         item |-> current_star_cn,
         guxiang |-> current_star_obj.guxiang]

\* step i (0..7) of the star walk
tian_pan_step(stars, start_star_index, path_start_index, i) ==
    LET current_star_cn == At(stars_order_cn, (start_star_index + i) % 8)
        current_star_obj == First(SelectSeq(stars, LAMBDA s : s.cn = current_star_cn))[1]
    IN  [palace |-> At(LUO_SHU_PATH, (path_start_index + i) % 8),
         item |-> current_star_cn,
         guxiang |-> current_star_obj.guxiang]

\* a walk that gives the first palace the star after the chief
tian_pan_walk_from_next(stars, start_star_index, path_start_index) ==
    [k \in 1..8 |-> tian_pan_step(stars, start_star_index + 1, path_start_index, k - 1)]

tian_pan_walk(stars, start_star_index, path_start_index) ==
    [k \in 1..8 |-> tian_pan_step(stars, start_star_index, path_start_index, k - 1)]

\* tian_pan_stars[palace].append(star), step after step
RECURSIVE walk_stars(_, _)
walk_stars(tian_pan_stars, walk) ==
    IF walk = <<>> THEN tian_pan_stars
    ELSE walk_stars([tian_pan_stars EXCEPT ![Head(walk).palace] = Append(@, Head(walk).item)],
                    Tail(walk))

\* only the first stem of the star's home carried along
RECURSIVE walk_stems_first_only(_, _, _)
walk_stems_first_only(tian_pan_stems, walk, di_pan_stems) ==
    IF walk = <<>> THEN tian_pan_stems
    ELSE walk_stems_first_only(
             [tian_pan_stems EXCEPT
                 ![Head(walk).palace] = @ \o <<di_pan_stems[Head(walk).guxiang][1]>>],
             Tail(walk), di_pan_stems)

\* tian_pan_stems[palace].extend(di_pan_stems[home of the star]), step after step
RECURSIVE walk_stems(_, _, _)
walk_stems(tian_pan_stems, walk, di_pan_stems) ==
    IF walk = <<>> THEN tian_pan_stems
    ELSE walk_stems([tian_pan_stems EXCEPT
                        ![Head(walk).palace] = @ \o di_pan_stems[Head(walk).guxiang]],
                    Tail(walk), di_pan_stems)

\* a search that never finds Rui
find_rui_palace_none(tian_pan_stars) == -1

\* the first list index 0..9 whose stars include Rui, -1 when none does
find_rui_palace(tian_pan_stars) ==
    IF \E i \in 0..9 : "Rui" \in Range(tian_pan_stars[i])
    THEN CHOOSE i \in 0..9 : /\ "Rui" \in Range(tian_pan_stars[i])
                            /\ \A j \in 0..(i - 1) : "Rui" \notin Range(tian_pan_stars[j])
    ELSE -1

\* Qin joins Rui's palace and palace 5 is left as the walk left it
tian_pan_dual_only(tian_pan_stems, tian_pan_stars, di_pan_stems, qin_star) ==
    LET rui_palace == find_rui_palace(tian_pan_stars)
    IN  [tian_pan_stems |-> tian_pan_stems,
         tian_pan_stars |-> IF rui_palace # -1
                            THEN [tian_pan_stars EXCEPT ![rui_palace] = Append(@, "Qin")]
                            ELSE tian_pan_stars]

\* lines 218-228: Qin joins Rui's palace, and palace 5 is given Qin and
\* the earth-plate stems of Qin's home
tian_pan_center(tian_pan_stems, tian_pan_stars, di_pan_stems, qin_star) ==
    LET rui_palace == find_rui_palace(tian_pan_stars)
        dual == IF rui_palace # -1
                THEN [tian_pan_stars EXCEPT ![rui_palace] = Append(@, "Qin")]
                ELSE tian_pan_stars
    IN  [tian_pan_stems |-> [tian_pan_stems EXCEPT ![5] = @ \o di_pan_stems[qin_star.guxiang]],
         tian_pan_stars |-> [dual EXCEPT ![5] = Append(@, "Qin")]]

_layout_tian_pan_and_stars(data, shi_gan, di_pan_stems, zhi_fu_star, shi_chen_xun) ==
    LET zhi_fu_palace == _find_stem_palace(shi_gan, di_pan_stems, shi_chen_xun)
        stars == Table(data, "jiuXing")
    IN
    IF zhi_fu_palace = -1 THEN Raise("ValueError")
    ELSE IF stars.exc # "" THEN stars
    ELSE
      LET qin == First(SelectSeq(stars.val, LAMBDA s : s.cn = "Qin"))
          start_star_index ==
              IF zhi_fu_star.cn # "Qin" THEN IndexOf(stars_order_cn, zhi_fu_star.cn)
                                        ELSE IndexOf(stars_order_cn, "Rui")
          path_start_index == IndexOf(LUO_SHU_PATH, zhi_fu_palace)
      IN
      IF qin = <<>> THEN Raise("StopIteration")
      ELSE IF start_star_index = -1 \/ path_start_index = -1 THEN Raise("ValueError")
      ELSE IF \E i \in 1..8 : \A k \in 1..Len(stars.val) : stars.val[k].cn # stars_order_cn[i]
           THEN Raise("StopIteration")
      ELSE IF \E k \in 1..Len(stars.val) : stars.val[k].guxiang \notin 0..9
           THEN Raise("IndexError")
      ELSE
        LET walk == tian_pan_walk(stars.val, start_star_index, path_start_index)
            done == tian_pan_center(walk_stems(EmptyLists, walk, di_pan_stems),
                                    walk_stars(EmptyLists, walk), di_pan_stems, qin[1])
        IN  Ok([tian_pan_stems |-> done.tian_pan_stems,
                tian_pan_stars |-> done.tian_pan_stars, walk |-> walk])

men_order_cn == <<"Xiu", "Sheng", "Shang", "Du", "Jing3", "Si", "Jing1", "Kai">>

\* a landing on palace 5 left where it is
zhi_shi_luo_gong_no_remap(ju_shu_info, start_palace, offset) ==
    IF ju_shu_info.dun = "yang"
    THEN ((start_palace + offset - 1) % 9) + 1
    ELSE ((start_palace - offset - 1 + 9) % 9) + 1

\* the palace the chief gate lands in
zhi_shi_luo_gong(ju_shu_info, start_palace, offset) ==
    LET landed == IF ju_shu_info.dun = "yang"
                  THEN ((start_palace + offset - 1) % 9) + 1
                  ELSE ((start_palace - offset - 1 + 9) % 9) + 1
    IN  IF landed = 5 THEN 2 ELSE landed

\* a gate walk over the palaces in numeric order 1..9
ba_men_walk_numeric(men_start_index, luo_gong_path_index) ==
    [k \in 1..8 |-> [palace |-> ((At(LUO_SHU_PATH, luo_gong_path_index) + k - 2) % 9) + 1,
                     item |-> At(men_order_cn, (men_start_index + k - 1) % 8)]]

ba_men_walk(men_start_index, luo_gong_path_index) ==
    [k \in 1..8 |-> [palace |-> At(LUO_SHU_PATH, (luo_gong_path_index + k - 1) % 8),
                     item |-> At(men_order_cn, (men_start_index + k - 1) % 8)]]

_layout_ba_men(data, shi_zhi, xun_zhi, zhi_shi_cn, ju_shu_info) ==
    LET branches == Table(data, "diZhi")
        gates == Table(data, "baMen")
    IN
    IF branches.exc # "" THEN branches
    ELSE
      LET di_zhi_order == [i \in 1..Len(branches.val) |-> branches.val[i].cn]
          shi_index == IndexOf(di_zhi_order, shi_zhi)
          xun_index == IndexOf(di_zhi_order, xun_zhi)
          offset == (shi_index - xun_index + 12) % 12
      IN
      IF shi_index = -1 \/ xun_index = -1 THEN Raise("ValueError")
      ELSE IF gates.exc # "" THEN gates
      ELSE
        LET zhi_shi_obj == First(SelectSeq(gates.val, LAMBDA g : g.cn = zhi_shi_cn))
            men_start_index == IndexOf(men_order_cn, zhi_shi_cn)
        IN
        IF zhi_shi_obj = <<>> THEN Raise("StopIteration")
        ELSE IF men_start_index = -1 THEN Raise("ValueError")
        ELSE
          LET luo_gong == zhi_shi_luo_gong(ju_shu_info, zhi_shi_obj[1].guxiang, offset)
              luo_gong_path_index == IndexOf(LUO_SHU_PATH, luo_gong)
              walk == ba_men_walk(men_start_index, luo_gong_path_index)
          IN  IF luo_gong_path_index = -1 THEN Raise("ValueError")
              ELSE Ok([layout |-> Place(EmptyNames, walk), walk |-> walk])

----------------------------------------------------------------------------
(* PaiPanEngine: horse star and void branches (step 9) *)

\* a map without the group si, you, chou
_find_ma_xing_three_groups(shi_zhi) ==
    CASE shi_zhi \in {"yin", "wu", "xu"}   -> "shen"
      [] shi_zhi \in {"hai", "mao", "wei"} -> "si"
      [] shi_zhi \in {"shen", "zi", "chen"} -> "yin"
      [] OTHER -> ""

_find_ma_xing(shi_zhi) ==
    CASE shi_zhi \in {"yin", "wu", "xu"}   -> "shen"
      [] shi_zhi \in {"hai", "mao", "wei"} -> "si"
      [] shi_zhi \in {"shen", "zi", "chen"} -> "yin"
      [] shi_zhi \in {"si", "you", "chou"} -> "hai"
      [] OTHER -> ""

_find_kong_wang(data, ri_zhu, shi_zhu) ==
    LET ri_xun == _find_shi_chen_xun(data, ri_zhu[1], ri_zhu[2])
        shi_xun == _find_shi_chen_xun(data, shi_zhu[1], shi_zhu[2])
    IN
    IF ri_xun.exc # "" THEN ri_xun
    ELSE IF shi_xun.exc # "" THEN shi_xun
    ELSE
      LET table == data.liuShiJiaZi
          ri_kong == First(SelectSeq(table, LAMBDA j : j.xun.zhi = ri_xun.val.zhi))
          shi_kong == First(SelectSeq(table, LAMBDA j : j.xun.zhi = shi_xun.val.zhi))
      IN  IF ri_kong = <<>> \/ shi_kong = <<>> THEN Raise("StopIteration")
          ELSE Ok([ri |-> ri_kong[1].kong, shi |-> shi_kong[1].kong])

----------------------------------------------------------------------------
(* PaiPanEngine: the annotation engine (step 10) *)

\* An annotation is [type, text, strike].  A text is the list of its parts:
\* <<"Wu", "jixing">> is the clash text of stem Wu, <<"Wu", "rumu">> its
\* tomb text, <<"shuang", "xu", "kong">> the double-void text of branch xu.
Anno(type, text, strike) == [type |-> type, text |-> text, strike |-> strike]

NoAnnotations == [z \in Range(DiZhiCn) |-> <<>>]

\* ji_xing_rules, in the order the dict lists them
ji_xing_rules ==
    <<[gan |-> "Wu", gong |-> 3, zhi |-> "mao"], [gan |-> "Ji", gong |-> 2, zhi |-> "wei"],
      [gan |-> "Geng", gong |-> 8, zhi |-> "yin"], [gan |-> "Xin", gong |-> 9, zhi |-> "wu"],
      [gan |-> "Ren", gong |-> 4, zhi |-> "chen"], [gan |-> "Gui", gong |-> 4, zhi |-> "si"]>>

RECURSIVE liu_ji_loop(_, _, _, _)
liu_ji_loop(annotations, rules, di_pan_stems, tian_pan_stems) ==
    IF rules = <<>> THEN annotations
    ELSE
      LET r == Head(rules)
          all_gan_list == tian_pan_stems[r.gong] \o di_pan_stems[r.gong]
          next == IF r.gan \in Range(all_gan_list)
                  THEN [annotations EXCEPT
                          ![r.zhi] = Append(@, Anno("liuji", <<r.gan, "jixing">>, FALSE))]
                  ELSE annotations
      IN  liu_ji_loop(next, Tail(rules), di_pan_stems, tian_pan_stems)

\* the rules run over the heaven plate and then over the earth plate
_analyze_liu_ji_per_plate(annotations, di_pan_stems, tian_pan_stems) ==
    liu_ji_loop(liu_ji_loop(annotations, ji_xing_rules, EmptyLists, tian_pan_stems),
                ji_xing_rules, di_pan_stems, EmptyLists)

_analyze_liu_ji_structured(annotations, di_pan_stems, tian_pan_stems) ==
    liu_ji_loop(annotations, ji_xing_rules, di_pan_stems, tian_pan_stems)

\* ru_mu_rules, in the order the dict lists them
ru_mu_rules ==
    <<[gong |-> 8, gan_list |-> {"Ding", "Ji", "Geng"}, zhi |-> "chou"],
      [gong |-> 4, gan_list |-> {"Xin", "Ren"}, zhi |-> "chen"],
      [gong |-> 2, gan_list |-> {"Yi", "Gui"}, zhi |-> "wei"],
      [gong |-> 6, gan_list |-> {"Bing", "Wu"}, zhi |-> "xu"]>>

\* one tomb record per listed stem of the palace, duplicates included
ru_mu_records(all_gan_list, gan_list) ==
    LET hits == SelectSeq(all_gan_list, LAMBDA g : g \in gan_list)
    IN  [i \in 1..Len(hits) |-> Anno("rumu", <<hits[i], "rumu">>, FALSE)]

RECURSIVE ru_mu_loop(_, _, _, _)
ru_mu_loop(annotations, rules, di_pan_stems, tian_pan_stems) ==
    IF rules = <<>> THEN annotations
    ELSE
      LET r == Head(rules)
          all_gan_list == tian_pan_stems[r.gong] \o di_pan_stems[r.gong]
      IN  ru_mu_loop([annotations EXCEPT ![r.zhi] = @ \o ru_mu_records(all_gan_list, r.gan_list)],
                     Tail(rules), di_pan_stems, tian_pan_stems)

_analyze_ru_mu_structured(annotations, di_pan_stems, tian_pan_stems) ==
    ru_mu_loop(annotations, ru_mu_rules, di_pan_stems, tian_pan_stems)

RECURSIVE kong_loop(_, _, _, _, _)
kong_loop(annotations, kong_list, type, text, yue_zhi) ==
    IF kong_list = <<>> THEN annotations
    ELSE kong_loop([annotations EXCEPT
                      ![Head(kong_list)] = Append(@, Anno(type, text, Head(kong_list) = yue_zhi))],
                   Tail(kong_list), type, text, yue_zhi)

\* the second loop run over the day-void list again
_analyze_kong_wang_day_twice(annotations, result) ==
    LET yue_zhi == result.si_zhu.yue[2]
        ri == kong_loop(annotations, result.kong_wang.ri, "rikong", <<"rikong">>, yue_zhi)
    IN  kong_loop(ri, result.kong_wang.ri, "shikong", <<"shikong">>, yue_zhi)

_analyze_kong_wang_structured(annotations, result) ==
    LET yue_zhi == result.si_zhu.yue[2]
        ri == kong_loop(annotations, result.kong_wang.ri, "rikong", <<"rikong">>, yue_zhi)
    IN  kong_loop(ri, result.kong_wang.shi, "shikong", <<"shikong">>, yue_zhi)

_analyze_yue_wang_ma_xing_structured(annotations, result) ==
    LET yue_zhi == result.si_zhu.yue[2]
        yue == [annotations EXCEPT ![yue_zhi] = Append(@, Anno("yueling", <<"yueling">>, FALSE))]
    IN  IF result.ma_xing # ""
        THEN [yue EXCEPT ![result.ma_xing] = Append(@, Anno("maxing", <<"maxing">>, FALSE))]
        ELSE yue

----------------------------------------------------------------------------
(* PaiPanEngine: the merge pass and the chongdong analyzer (steps 10, 11) *)

type_count(annotation_list, ann_type) ==
    Len(SelectSeq(annotation_list, LAMBDA a : a.type = ann_type))

\* the elements of s, each once, in order of first appearance
RECURSIVE Distinct(_)
Distinct(s) ==
    IF s = <<>> THEN <<>>
    ELSE <<Head(s)>> \o Distinct(SelectSeq(Tail(s), LAMBDA e : e # Head(s)))

\* rumu_ann["text"].replace("rumu", "")
rumu_gan(ann) == SelectSeq(ann.text, LAMBDA part : part # "rumu")

\* the tomb records of a branch combined into one double-tomb record,
\* whatever their stems
rumu_merged_combined(annotation_list) ==
    LET rumu_annotations == SelectSeq(annotation_list, LAMBDA a : a.type = "rumu")
    IN  <<Anno("rumu", <<"shuang">> \o rumu_gan(rumu_annotations[1]) \o <<"rumu">>, FALSE)>>

\* lines 441-467: one record per stem of the branch's tomb records
rumu_merged(annotation_list) ==
    LET rumu_annotations == SelectSeq(annotation_list, LAMBDA a : a.type = "rumu")
        gans == Distinct([i \in 1..Len(rumu_annotations) |-> rumu_gan(rumu_annotations[i])])
        count(gan) == Len(SelectSeq(rumu_annotations, LAMBDA a : rumu_gan(a) = gan))
        has_strike(gan) ==
            \E i \in 1..Len(rumu_annotations) :
                rumu_annotations[i].strike /\ rumu_annotations[i].text = gan \o <<"rumu">>
    IN  [k \in 1..Len(gans) |->
            Anno("rumu",
                 IF count(gans[k]) >= 2 THEN <<"shuang">> \o gans[k] \o <<"rumu">>
                                        ELSE gans[k] \o <<"rumu">>,
                 has_strike(gans[k]))]

\* lines 422-480: the loop over one branch's list, from 1-based position i
RECURSIVE merge_loop(_, _, _, _, _, _)
merge_loop(di_zhi, annotation_list, i, new_annotations, processed_kong, processed_rumu) ==
    IF i > Len(annotation_list) THEN new_annotations
    ELSE
      LET annotation == annotation_list[i]
          ann_type == annotation.type
          kong == {"rikong", "shikong"}
          has_ri_kong == \E k \in 1..Len(annotation_list) : annotation_list[k].type = "rikong"
          has_shi_kong == \E k \in 1..Len(annotation_list) : annotation_list[k].type = "shikong"
          has_strike == \E k \in 1..Len(annotation_list) :
                            annotation_list[k].type \in kong /\ annotation_list[k].strike
          first_of_type == Head(SelectSeq(annotation_list, LAMBDA a : a.type = ann_type))
      IN
      IF ann_type \in kong /\ ~processed_kong
      THEN IF has_ri_kong /\ has_shi_kong
           THEN merge_loop(di_zhi, annotation_list, i + 1,
                    Append(new_annotations,
                           Anno("shuangkong", <<"shuang", di_zhi, "kong">>, has_strike)),
                    TRUE, processed_rumu)
           ELSE merge_loop(di_zhi, annotation_list, i + 1, Append(new_annotations, annotation),
                    processed_kong, processed_rumu)
      ELSE IF ann_type = "rumu" /\ type_count(annotation_list, ann_type) >= 2 /\ ~processed_rumu
      THEN merge_loop(di_zhi, annotation_list, i + 1,
               new_annotations \o rumu_merged(annotation_list), processed_kong, TRUE)
      ELSE IF type_count(annotation_list, ann_type) >= 2 /\ ann_type # "rumu"
      THEN merge_loop(di_zhi, annotation_list, i + 1,
               IF annotation = first_of_type
               THEN Append(new_annotations,
                           Anno(ann_type, <<"shuang">> \o annotation.text, annotation.strike))
               ELSE new_annotations,
               processed_kong, processed_rumu)
      ELSE IF ann_type \notin (kong \cup {"rumu"}) \/ (~processed_kong /\ ~processed_rumu)
      THEN merge_loop(di_zhi, annotation_list, i + 1, Append(new_annotations, annotation),
               processed_kong, processed_rumu)
      ELSE merge_loop(di_zhi, annotation_list, i + 1, new_annotations,
               processed_kong, processed_rumu)

\* lists of two left as they are
merge_branch_over_two(di_zhi, annotation_list) ==
    IF Len(annotation_list) <= 2 THEN annotation_list
    ELSE merge_loop(di_zhi, annotation_list, 1, <<>>, FALSE, FALSE)

merge_branch(di_zhi, annotation_list) ==
    IF Len(annotation_list) <= 1 THEN annotation_list
    ELSE merge_loop(di_zhi, annotation_list, 1, <<>>, FALSE, FALSE)

_process_double_annotations_structured(annotations) ==
    [di_zhi \in DOMAIN annotations |-> merge_branch(di_zhi, annotations[di_zhi])]

\* the annotation dictionary kept on the engine from one cast to the next
_calculate_annotations_kept(result, di_pan_stems, tian_pan_stems) ==
    LET kept == last.chart.side_annotations
        liu_ji == _analyze_liu_ji_structured(kept, di_pan_stems, tian_pan_stems)
        ru_mu == _analyze_ru_mu_structured(liu_ji, di_pan_stems, tian_pan_stems)
        kong_wang == _analyze_kong_wang_structured(ru_mu, result)
        yue_ma == _analyze_yue_wang_ma_xing_structured(kong_wang, result)
    IN  _process_double_annotations_structured(yue_ma)

_calculate_annotations(result, di_pan_stems, tian_pan_stems) ==
    LET liu_ji == _analyze_liu_ji_structured(NoAnnotations, di_pan_stems, tian_pan_stems)
        ru_mu == _analyze_ru_mu_structured(liu_ji, di_pan_stems, tian_pan_stems)
        kong_wang == _analyze_kong_wang_structured(ru_mu, result)
        yue_ma == _analyze_yue_wang_ma_xing_structured(kong_wang, result)
    IN  _process_double_annotations_structured(yue_ma)

dui_gong_map == [g \in {1, 2, 3, 4, 6, 7, 8, 9} |-> 10 - g]

zhi_to_gong_map ==
    [z \in Range(DiZhiCn) |->
        CASE z = "zi" -> 1 [] z \in {"chou", "yin"} -> 8 [] z = "mao" -> 3
          [] z \in {"chen", "si"} -> 4 [] z = "wu" -> 9 [] z \in {"wei", "shen"} -> 2
          [] z = "you" -> 7 [] z \in {"xu", "hai"} -> 6]

gong_to_zhi_list_map ==
    [g \in 1..9 |->
        CASE g = 1 -> <<"zi">> [] g = 2 -> <<"wei", "shen">> [] g = 3 -> <<"mao">>
          [] g = 4 -> <<"chen", "si">> [] g = 5 -> <<>> [] g = 6 -> <<"xu", "hai">>
          [] g = 7 -> <<"you">> [] g = 8 -> <<"chou", "yin">> [] g = 9 -> <<"wu">>]

Target(anno, zhi) == [type |-> anno.type, location_zhi |-> zhi, text |-> anno.text]

RECURSIVE targets_of(_, _, _)
targets_of(zhi_list, target_types, all_annotations) ==
    IF zhi_list = <<>> THEN <<>>
    ELSE LET zhi == Head(zhi_list)
             hits == SelectSeq(all_annotations[zhi], LAMBDA a : a.type \in target_types)
         IN  [i \in 1..Len(hits) |-> Target(hits[i], zhi)]
             \o targets_of(Tail(zhi_list), target_types, all_annotations)

_find_targets_in_gong(gong_index, target_types, all_annotations) ==
    targets_of(IF gong_index \in DOMAIN gong_to_zhi_list_map
               THEN gong_to_zhi_list_map[gong_index] ELSE <<>>,
               target_types, all_annotations)

\* the void tiers tried before the tomb tiers
_analyze_maxing_chongdong_void_first(result) ==
    IF result.ma_xing = "" THEN <<>>
    ELSE
      LET ben_gong_index == zhi_to_gong_map[result.ma_xing]
          has_dui == ben_gong_index \in DOMAIN dui_gong_map
          dui_gong_index == IF has_dui THEN dui_gong_map[ben_gong_index] ELSE 0
          kong == {"rikong", "shikong"}
          ben_rumu == _find_targets_in_gong(ben_gong_index, {"rumu"}, result.side_annotations)
          dui_rumu == _find_targets_in_gong(dui_gong_index, {"rumu"}, result.side_annotations)
          ben_kong == _find_targets_in_gong(ben_gong_index, kong, result.side_annotations)
          dui_kong == _find_targets_in_gong(dui_gong_index, kong, result.side_annotations)
      IN  IF ben_kong # <<>> THEN ben_kong
          ELSE IF has_dui /\ dui_kong # <<>> THEN dui_kong
          ELSE IF ben_rumu # <<>> THEN ben_rumu
          ELSE IF has_dui /\ dui_rumu # <<>> THEN dui_rumu
          ELSE <<>>

_analyze_maxing_chongdong(result) ==
    IF result.ma_xing = "" THEN <<>>
    ELSE
      LET ben_gong_index == zhi_to_gong_map[result.ma_xing]
          has_dui == ben_gong_index \in DOMAIN dui_gong_map
          dui_gong_index == IF has_dui THEN dui_gong_map[ben_gong_index] ELSE 0
          kong == {"rikong", "shikong"}
          ben_rumu == _find_targets_in_gong(ben_gong_index, {"rumu"}, result.side_annotations)
          dui_rumu == _find_targets_in_gong(dui_gong_index, {"rumu"}, result.side_annotations)
          ben_kong == _find_targets_in_gong(ben_gong_index, kong, result.side_annotations)
          dui_kong == _find_targets_in_gong(dui_gong_index, kong, result.side_annotations)
      IN  IF ben_rumu # <<>> THEN ben_rumu
          ELSE IF has_dui /\ dui_rumu # <<>> THEN dui_rumu
          ELSE IF ben_kong # <<>> THEN ben_kong
          ELSE IF has_dui /\ dui_kong # <<>> THEN dui_kong
          ELSE <<>>

----------------------------------------------------------------------------
(* models.py: Palace and ChartResult as constructed *)

Palace(index) ==
    [index |-> index, zhi_fu |-> "", tian_pan_stars |-> <<>>, tian_pan_gates |-> <<>>,
     tian_pan_stems |-> <<>>, di_pan_stems |-> <<>>, di_pan_star |-> "", di_pan_gate |-> "",
     wuxing_color |-> "", god |-> "", stars |-> <<>>, gates |-> "", heaven_stems |-> <<>>,
     earth_stems |-> <<>>, original_star |-> "", original_gate |-> ""]

NoPillar == <<"", "">>

NoTime == [year |-> 0, month |-> 0, day |-> 0, hour |-> 0, minute |-> 0]

ChartResult ==
    [si_zhu |-> [nian |-> NoPillar, yue |-> NoPillar, ri |-> NoPillar, shi |-> NoPillar],
     jieqi |-> "",
     ju_shu_info |-> [dun |-> "", ju |-> 0],
     shi_chen_xun |-> [zhi |-> "", jun |-> ""],
     zhi_fu |-> "", zhi_shi |-> "", tian_yi |-> "", ma_xing |-> "",
     kong_wang |-> [ri |-> <<>>, shi |-> <<>>],
     palaces |-> [i \in 0..9 |-> Palace(i)],
     side_annotations |-> NoAnnotations,
     maxing_chongdong_targets |-> <<>>,
     qi_ju_time |-> NoTime,
     index |-> <<>>]

----------------------------------------------------------------------------
(* models.py: ChartResult._build_index and _add_to_index *)

\* a dict is a function; {} is the function with no key
EmptyDict == <<>>

\* sub_index = None
None == -1

\* f"palace_{palace_index}_{attribute_name}_{sub_index}", the last part
\* only when sub_index is given
unique_id_no_sub(palace_index, attribute_name, sub_index) ==
    "palace_" \o ToString(palace_index) \o "_" \o attribute_name

unique_id(palace_index, attribute_name, sub_index) ==
    IF sub_index # None
    THEN "palace_" \o ToString(palace_index) \o "_" \o attribute_name \o "_" \o ToString(sub_index)
    ELSE "palace_" \o ToString(palace_index) \o "_" \o attribute_name

location_obj(param_type, palace_index, attribute_name, text, sub_index) ==
    IF sub_index # None
    THEN [palace_index |-> palace_index, param_type |-> param_type,
          attribute_name |-> attribute_name, text |-> text,
          id |-> unique_id(palace_index, attribute_name, sub_index),
          sub_index |-> sub_index]
    ELSE [palace_index |-> palace_index, param_type |-> param_type,
          attribute_name |-> attribute_name, text |-> text,
          id |-> unique_id(palace_index, attribute_name, sub_index)]

\* index[param_type][param_name], {} and [] standing in for absent keys
filed(index, param_type, param_name) ==
    IF param_type \notin DOMAIN index THEN <<>>
    ELSE IF param_name \notin DOMAIN index[param_type] THEN <<>>
    ELSE index[param_type][param_name]

names_of(index, param_type) ==
    IF param_type \in DOMAIN index THEN index[param_type] ELSE EmptyDict

_add_to_index(index, param_type, param_name, palace_index, attribute_name, text, sub_index) ==
    (param_type :>
        ((param_name :>
            Append(filed(index, param_type, param_name),
                   location_obj(param_type, palace_index, attribute_name, text, sub_index)))
         @@ names_of(index, param_type)))
    @@ index

\* for i, x in enumerate(values): if x: add, from 0-based position i on
RECURSIVE add_each(_, _, _, _, _, _)
add_each(index, param_type, palace_idx, attribute_name, values, i) ==
    IF i >= Len(values) THEN index
    ELSE add_each(IF At(values, i) # ""
                  THEN _add_to_index(index, param_type, At(values, i), palace_idx,
                                     attribute_name, At(values, i), i)
                  ELSE index,
                  param_type, palace_idx, attribute_name, values, i + 1)

\* if value: add
add_one(index, param_type, palace_idx, attribute_name, value) ==
    IF value # ""
    THEN _add_to_index(index, param_type, value, palace_idx, attribute_name, value, None)
    ELSE index

\* lines 66-98: the body of the loop, for one palace
index_palace(index, palace_idx, palace) ==
    LET god == add_one(index, "baShen", palace_idx, "zhi_fu", palace.zhi_fu)
        stars == add_each(god, "jiuXing", palace_idx, "tian_pan_stars", palace.tian_pan_stars, 0)
        gates == add_each(stars, "baMen", palace_idx, "tian_pan_gates", palace.tian_pan_gates, 0)
        stems == add_each(gates, "tianGan", palace_idx, "tian_pan_stems", palace.tian_pan_stems, 0)
        earth_stems == add_each(stems, "tianGan", palace_idx, "di_pan_stems", palace.di_pan_stems, 0)
        star == add_one(earth_stems, "jiuXing", palace_idx, "di_pan_star", palace.di_pan_star)
    IN  add_one(star, "baMen", palace_idx, "di_pan_gate", palace.di_pan_gate)

\* for palace_idx in range(1, 10): an iteration starts from the index the
\* iteration before it left (left ranges over that one index, fully built)
RECURSIVE index_palaces(_, _, _)
index_palaces(index, palaces, palace_idx) ==
    IF palace_idx > 9 THEN index
    ELSE CHOOSE built_index \in {index_palaces(left, palaces, palace_idx + 1) :
                                   left \in {index_palace(index, palace_idx, palaces[palace_idx])}} : TRUE

_build_index(self) == index_palaces(EmptyDict, self.palaces, 1)

----------------------------------------------------------------------------
(* PaiPanEngine.paipan and _internal_paipan *)

AsciiDigits == <<"0", "1", "2", "3", "4", "5", "6", "7", "8", "9">>

\* str.isdigit: every character is a digit and there is at least one.
\* "sup2" stands for a character such as superscript two, which isdigit
\* accepts and strptime's \d does not.
isdigit(time_str) ==
    /\ time_str # <<>>
    /\ \A i \in 1..Len(time_str) : time_str[i] \in Range(AsciiDigits) \cup {"sup2"}

RECURSIVE Num(_)
Num(digits) ==
    IF digits = <<>> THEN 0
    ELSE 10 * Num(SubSeq(digits, 1, Len(digits) - 1)) + IndexOf(AsciiDigits, digits[Len(digits)])

DaysIn(year, month) ==
    IF month = 2
    THEN IF (year % 4 = 0 /\ year % 100 # 0) \/ year % 400 = 0 THEN 29 ELSE 28
    ELSE IF month \in {4, 6, 9, 11} THEN 30 ELSE 31

\* datetime.strptime(time_str, '%Y%m%d%H%M%S') on 14 isdigit characters:
\* every field takes its full width; ValueError unless they name a moment
strptime(time_str) ==
    LET year == Num(SubSeq(time_str, 1, 4))
        month == Num(SubSeq(time_str, 5, 6))
        day == Num(SubSeq(time_str, 7, 8))
        hour == Num(SubSeq(time_str, 9, 10))
        minute == Num(SubSeq(time_str, 11, 12))
        second == Num(SubSeq(time_str, 13, 14))
    IN  IF \E i \in 1..Len(time_str) : time_str[i] \notin Range(AsciiDigits)
        THEN Raise("ValueError")
        ELSE IF \/ year < 1 \/ month \notin 1..12 \/ day \notin 1..DaysIn(year, month)
                \/ hour > 23 \/ minute > 59 \/ second > 59
        THEN Raise("ValueError")
        ELSE Ok([year |-> year, month |-> month, day |-> day,
                 hour |-> hour, minute |-> minute, second |-> second])

\* target_dt.strftime(..): the moment, to the minute
strftime(target_dt) ==
    [year |-> target_dt.year, month |-> target_dt.month, day |-> target_dt.day,
     hour |-> target_dt.hour, minute |-> target_dt.minute]

\* the steps of a cast, in the order _internal_paipan takes them
PIPELINE ==
    <<"strptime", "get_solar_term", "get_si_zhu", "_find_yuan", "_find_ju_shu",
      "_layout_di_pan", "_find_shi_chen_xun", "_find_zhi_fu_zhi_shi", "zhi_fu",
      "_layout_ba_shen", "_layout_tian_pan_and_stars", "_layout_ba_men", "_find_ma_xing",
      "_find_kong_wang", "palaces", "_calculate_annotations", "_analyze_maxing_chongdong">>

NoWalks == [gods |-> <<>>, stars |-> <<>>, gates |-> <<>>]

\* a call that raised exc in the step named: result is the object as far
\* as it had been filled, which the exception discards
Raised(exc, step, result) ==
    [exc |-> exc, steps |-> SubSeq(PIPELINE, 1, IndexOf(PIPELINE, step) + 1),
     result |-> result, walks |-> NoWalks]

palace_wuxing == [i \in 1..9 |->
    CASE i = 1 -> "shui" [] i \in {2, 5, 8} -> "tu" [] i \in {3, 4} -> "mu"
      [] i \in {6, 7} -> "jin" [] i = 9 -> "huo"]

\* {p['guxiang']: p['cn'] for p in catalog}.get(i, default)
home_name(catalog, i, default) ==
    LET hits == SelectSeq(catalog, LAMBDA p : p.guxiang = i)
    IN  IF hits = <<>> THEN default ELSE hits[Len(hits)].cn

\* lines 83-92
fill_palaces(data, palaces, di_pan_stems, tian_pan_stems, tian_pan_stars, gates, gods) ==
    [i \in 0..9 |->
        IF i = 0 THEN palaces[i]
        ELSE [palaces[i] EXCEPT
                !.earth_stems = di_pan_stems[i],
                !.heaven_stems = tian_pan_stems[i],
                !.stars = tian_pan_stars[i],
                !.gates = gates[i],
                !.god = gods[i],
                !.wuxing_color = palace_wuxing[i],
                !.original_star = home_name(data.jiuXing, i, "Qin"),
                !.original_gate = home_name(data.baMen, i, "")]]

\* _internal_paipan, step after step.  Each operator is the rest of the
\* cast from one step on: it is given the result object as filled so far
\* and what the step before it produced, and raises what that step raised.

\* lines 94-100
after_calculate_annotations(result, walks) ==
    [exc |-> "", steps |-> PIPELINE,
     result |-> [result EXCEPT !.maxing_chongdong_targets = _analyze_maxing_chongdong(result)],
     walks |-> walks]

\* annotations[zhi] is a KeyError for a zhi that is none of the twelve
known_branches(result) ==
    /\ result.si_zhu.yue[2] \in Range(DiZhiCn)
    /\ Range(result.kong_wang.ri) \cup Range(result.kong_wang.shi) \subseteq Range(DiZhiCn)

\* line 95
after_palaces(result, di_pan_stems, tian_pan_stems, walks) ==
    IF ~known_branches(result) THEN Raised("KeyError", "_calculate_annotations", result)
    ELSE after_calculate_annotations(
             [result EXCEPT !.side_annotations =
                 _calculate_annotations(result, di_pan_stems, tian_pan_stems)],
             walks)

\* lines 76-92
after_find_kong_wang(data, result, di_pan_stems, gods, tian, men, kong) ==
    IF kong.exc # "" THEN Raised(kong.exc, "_find_kong_wang", result)
    ELSE after_palaces(
             [result EXCEPT
                 !.kong_wang = kong.val,
                 !.palaces = fill_palaces(data, @, di_pan_stems, tian.tian_pan_stems,
                                          tian.tian_pan_stars, men.layout, gods.layout)],
             di_pan_stems, tian.tian_pan_stems,
             [gods |-> gods.walk, stars |-> tian.walk, gates |-> men.walk])

\* lines 72-76
after_layout_ba_men(data, result, di_pan_stems, gods, tian, men) ==
    IF men.exc # "" THEN Raised(men.exc, "_layout_ba_men", result)
    ELSE after_find_kong_wang(
             data, [result EXCEPT !.ma_xing = _find_ma_xing(result.si_zhu.shi[2])],
             di_pan_stems, gods, tian, men.val,
             _find_kong_wang(data, result.si_zhu.ri, result.si_zhu.shi))

\* lines 68-72
after_layout_tian_pan_and_stars(data, result, di_pan_stems, gods, tian) ==
    IF tian.exc # "" THEN Raised(tian.exc, "_layout_tian_pan_and_stars", result)
    ELSE after_layout_ba_men(
             data, result, di_pan_stems, gods, tian.val,
             _layout_ba_men(data, result.si_zhu.shi[2], result.shi_chen_xun.zhi,
                            result.zhi_shi, result.ju_shu_info))

\* lines 64-68
after_layout_ba_shen(data, result, di_pan_stems, zhi_fu_star, gods) ==
    IF gods.exc # "" THEN Raised(gods.exc, "_layout_ba_shen", result)
    ELSE after_layout_tian_pan_and_stars(
             data, result, di_pan_stems, gods.val,
             _layout_tian_pan_and_stars(data, result.si_zhu.shi[1], di_pan_stems,
                                        zhi_fu_star, result.shi_chen_xun))

\* lines 59-64: zhi_fu_star['cn'] is a TypeError when the star is None
after_find_zhi_fu_zhi_shi(data, result, di_pan_stems, chief) ==
    IF chief.exc # "" THEN Raised(chief.exc, "_find_zhi_fu_zhi_shi", result)
    ELSE IF chief.val.zhi_fu_star = <<>>
    THEN Raised("TypeError", "zhi_fu", [result EXCEPT !.zhi_shi = chief.val.zhi_shi])
    ELSE after_layout_ba_shen(
             data,
             [result EXCEPT !.zhi_shi = chief.val.zhi_shi,
                            !.zhi_fu = chief.val.zhi_fu_star[1].cn],
             di_pan_stems, chief.val.zhi_fu_star[1],
             _layout_ba_shen(result.si_zhu.shi[1], di_pan_stems, result.ju_shu_info,
                             result.shi_chen_xun))

\* lines 58-59
after_find_shi_chen_xun(data, result, di_pan_stems, xun) ==
    IF xun.exc # "" THEN Raised(xun.exc, "_find_shi_chen_xun", result)
    ELSE after_find_zhi_fu_zhi_shi(
             data, [result EXCEPT !.shi_chen_xun = xun.val], di_pan_stems,
             _find_zhi_fu_zhi_shi(data, xun.val, di_pan_stems))

\* lines 53-58
after_find_ju_shu(data, result, ju) ==
    IF ju.exc # "" THEN Raised(ju.exc, "_find_ju_shu", result)
    ELSE after_find_shi_chen_xun(
             data, [result EXCEPT !.ju_shu_info = ju.val], _layout_di_pan(ju.val),
             _find_shi_chen_xun(data, result.si_zhu.shi[1], result.si_zhu.shi[2]))

\* lines 52-53
after_find_yuan(data, result, yuan) ==
    IF yuan.exc # "" THEN Raised(yuan.exc, "_find_yuan", result)
    ELSE after_find_ju_shu(data, result, _find_ju_shu(data, result.jieqi, yuan.val))

\* lines 46-52
after_get_si_zhu(data, result, moment) ==
    after_find_yuan(
        data, [result EXCEPT !.jieqi = moment.jieqi, !.si_zhu = moment.si_zhu],
        _find_yuan(data, moment.si_zhu.ri[1], moment.si_zhu.ri[2]))

_internal_paipan(data, cal, target_dt) ==
    after_get_si_zhu(data, [ChartResult EXCEPT !.qi_ju_time = strftime(target_dt)],
                     cal[target_dt])

\* paipan with the length test left out; strptime reads short fields
paipan_any_length(data, cal, time_str) ==
    IF ~isdigit(time_str)
    THEN [exc |-> "ValueError", steps |-> <<>>, result |-> ChartResult, walks |-> NoWalks]
    ELSE LET target_dt == strptime([i \in 1..14 |-> IF i <= Len(time_str) THEN time_str[i] ELSE "0"])
         IN  IF target_dt.exc # "" THEN Raised(target_dt.exc, "strptime", ChartResult)
             ELSE _internal_paipan(data, cal, target_dt.val)

paipan(data, cal, time_str) ==
    IF Len(time_str) # 14 \/ ~isdigit(time_str)
    THEN [exc |-> "ValueError", steps |-> <<>>, result |-> ChartResult, walks |-> NoWalks]
    ELSE LET target_dt == strptime(time_str)
         IN  IF target_dt.exc # "" THEN Raised(target_dt.exc, "strptime", ChartResult)
             ELSE _internal_paipan(data, cal, target_dt.val)

\* PaiPanEngine(data_file_path): the object, or the exception __init__ raises
NoData == [ValidDoc EXCEPT !.kind = "none", !.keys = {}]

__init__(document) ==
    IF document.kind = "missing" THEN [state |-> "failed", data |-> NoData]
    ELSE IF document.kind = "malformed" THEN [state |-> "failed", data |-> NoData]
    ELSE [state |-> "ready", data |-> document]

----------------------------------------------------------------------------
(* Inputs: timestamp strings and the calendar resolver *)

MaxPad == 1         \* characters added to or cut from a 14-character string
MaxDayIndex == 9    \* day pillars the resolver reports: entries 0..MaxDayIndex

T1 == <<"2", "0", "2", "5", "0", "9", "0", "1", "1", "5", "3", "0", "0", "0">>
T2 == <<"2", "0", "2", "2", "0", "1", "0", "1", "0", "6", "0", "0", "0", "0">>
FebThirty == <<"2", "0", "2", "5", "0", "2", "3", "0", "1", "2", "0", "0", "0", "0">>

ValidStamps == {T1, T2}

RECURSIVE Zeros(_)
Zeros(n) == IF n = 0 THEN <<>> ELSE <<"0">> \o Zeros(n - 1)

TimeStrs ==
    ValidStamps
    \cup {T1 \o Zeros(k) : k \in 1..MaxPad}
    \cup {SubSeq(T1, 1, 14 - k) : k \in 1..MaxPad}
    \cup {<<>>, [T1 EXCEPT ![5] = "a"], [T2 EXCEPT ![14] = "sup2"], FebThirty}

Pillar(i) == <<At(TianGan, i % 10), At(DiZhiCn, i % 12)>>

\* What the resolver may report for one moment: solar term k (0..23), day
\* pillar d (0..59) and double-hour h (0..11).  The hour stem follows from
\* the day stem and the month branch from the solar term, as in the
\* sexagenary calendar; the year pillar is never read by the engine.
Moment(k, d, h) ==
    LET yue_zhi == ((k + 1) \div 2 + 3) % 12
    IN  [jieqi |-> At(SOLAR_TERMS, k),
         si_zhu |-> [nian |-> Pillar(41),
                     yue |-> <<At(TianGan, (yue_zhi + 2) % 10), At(DiZhiCn, yue_zhi)>>,
                     ri |-> Pillar(d),
                     shi |-> <<At(TianGan, ((d % 5) * 2 + h) % 10), At(DiZhiCn, h)>>]]

\* the resolver: T1 falls on (k, d, h), T2 on the next double-hour of
\* the next day
Resolver(k, d, h) ==
    [dt \in {strptime(t).val : t \in ValidStamps} |->
        IF dt = strptime(T1).val THEN Moment(k, d, h)
        ELSE Moment(k, (d + 1) % 60, (h + 1) % 12)]

Resolvers == {Resolver(k, d, h) : k \in 0..23, d \in 0..MaxDayIndex, h \in 0..11}

\* the resolvers tried with every document and every timestamp string
FewResolvers == {Resolver(k, d, h) : k \in {6, 18}, d \in {0, 5}, h \in {0, 10, 11}}

----------------------------------------------------------------------------
(* models.py: Case and its annotation layers *)

MaxLayers == 3      \* layers a Case holds at most: add_layer is not called beyond

\* A layer is the dict {name, is_visible, annotations}; obj tells the dict
\* objects of one Case apart, as their identity does.
Layer(name, obj) == [name |-> name, is_visible |-> TRUE, annotations |-> EmptyDict, obj |-> obj]

\* the fields of a Case before _initialize_default_layer has run
NoSelf == [annotation_layers |-> <<>>, active_layer_index |-> -1]

\* an identity no layer of the Case has
fresh_obj(self) ==
    CHOOSE o \in 1..(Len(self.annotation_layers) + 1) :
        \A i \in 1..Len(self.annotation_layers) : self.annotation_layers[i].obj # o

_initialize_default_layer(self) ==
    IF self.annotation_layers = <<>>
    THEN [self EXCEPT !.annotation_layers = Append(@, Layer("default", fresh_obj(self))),
                      !.active_layer_index = 0]
    ELSE self

\* Case(title, chart_result): the layer fields after __init__
Case == _initialize_default_layer(NoSelf)

\* list.pop(layer_index), 0 <= layer_index < len
pop(layers, layer_index) ==
    SubSeq(layers, 1, layer_index) \o SubSeq(layers, layer_index + 2, Len(layers))

\* Each method gives the object after the call and what the call returned.
add_layer(self, name) ==
    [self |-> [self EXCEPT !.annotation_layers = Append(@, Layer(name, fresh_obj(self))),
                           !.active_layer_index = Len(self.annotation_layers)],
     ret |-> Len(self.annotation_layers)]

\* a removal that leaves active_layer_index as it was
remove_layer_index_kept(self, layer_index) ==
    IF 0 <= layer_index /\ layer_index < Len(self.annotation_layers)
          /\ Len(self.annotation_layers) > 1
    THEN [self |-> [self EXCEPT !.annotation_layers = pop(@, layer_index)], ret |-> TRUE]
    ELSE [self |-> self, ret |-> FALSE]

remove_layer(self, layer_index) ==
    IF 0 <= layer_index /\ layer_index < Len(self.annotation_layers)
          /\ Len(self.annotation_layers) > 1
    THEN [self |-> [self EXCEPT
                      !.annotation_layers = pop(@, layer_index),
                      !.active_layer_index =
                          IF @ >= Len(self.annotation_layers) - 1
                          THEN Len(self.annotation_layers) - 2
                          ELSE IF @ > layer_index THEN @ - 1 ELSE @],
          ret |-> TRUE]
    ELSE [self |-> self, ret |-> FALSE]

rename_layer(self, layer_index, new_name) ==
    IF 0 <= layer_index /\ layer_index < Len(self.annotation_layers)
    THEN [self |-> [self EXCEPT !.annotation_layers[layer_index + 1].name = new_name],
          ret |-> TRUE]
    ELSE [self |-> self, ret |-> FALSE]

set_layer_visibility(self, layer_index, visible) ==
    IF 0 <= layer_index /\ layer_index < Len(self.annotation_layers)
    THEN [self |-> [self EXCEPT !.annotation_layers[layer_index + 1].is_visible = visible],
          ret |-> TRUE]
    ELSE [self |-> self, ret |-> FALSE]

set_active_layer(self, layer_index) ==
    IF 0 <= layer_index /\ layer_index < Len(self.annotation_layers)
    THEN [self |-> [self EXCEPT !.active_layer_index = layer_index], ret |-> TRUE]
    ELSE [self |-> self, ret |-> FALSE]

\* get_active_layer: a list of at most one layer, empty standing for None
get_active_layer(self) ==
    IF 0 <= self.active_layer_index /\ self.active_layer_index < Len(self.annotation_layers)
    THEN <<self.annotation_layers[self.active_layer_index + 1]>>
    ELSE <<>>

----------------------------------------------------------------------------
(* The state machine *)

NoCall ==
    [called |-> FALSE, time_str |-> <<>>, exc |-> "", steps |-> <<>>,
     returned |-> FALSE, chart |-> ChartResult, walks |-> NoWalks, prev_exc |-> "",
     repeat |-> FALSE]

Unseen == [cast |-> FALSE, chart |-> ChartResult]

NotBuilt == [called |-> FALSE, index |-> EmptyDict]

\* no list handed to the merge pass yet
NoMerge == [called |-> FALSE, di_zhi |-> "", annotation_list |-> <<>>, new_annotations |-> <<>>]

\* no method of the Case called yet.  A call is recorded with the index it
\* was given, what it returned (ret for the methods that return a bool,
\* new_index for add_layer) and the object as it was before the call.
NoCaseCall == [op |-> "", layer_index |-> -1, ret |-> FALSE, new_index |-> -1, before |-> NoSelf]

\* no Case constructed yet
NoCase == [state |-> "none", self |-> NoSelf, call |-> NoCaseCall]

MaxThreads == 2     \* threads that cast on the one engine

Threads == 1..MaxThreads

NoMoment == [year |-> 0, month |-> 0, day |-> 0, hour |-> 0, minute |-> 0, second |-> 0]

\* the local variables of a cast that has not begun.  pc counts the steps
\* of PIPELINE taken; overlapped records that a step of this cast was taken
\* while another cast was under way.
NoFrame ==
    [state |-> "idle", pc |-> 0, time_str |-> <<>>, exc |-> "", overlapped |-> FALSE,
     target_dt |-> NoMoment, result |-> ChartResult, yuan |-> "",
     di_pan_stems |-> EmptyLists, zhi_fu_star |-> <<>>,
     ba_shen_layout |-> EmptyNames, tian_pan_stems |-> EmptyLists,
     tian_pan_stars |-> EmptyLists, ba_men_layout |-> EmptyNames]

NoThreads == [t \in Threads |-> NoFrame]

Init ==
    /\ doc \in {ValidDoc} \cup DefectDocs
    /\ calendar \in FewResolvers
    /\ engine = [state |-> "none", data |-> NoData]
    /\ last = NoCall
    /\ seen = [t \in ValidStamps |-> Unseen]
    /\ held = ChartResult
    /\ built = NotBuilt
    /\ threads = NoThreads
    /\ merge = NoMerge
    /\ the_case = NoCase

\* engine = PaiPanEngine(data_file_path)
Construct ==
    /\ engine.state = "none"
    /\ engine' = __init__(doc)
    /\ UNCHANGED <<doc, calendar, last, seen, held, built, threads, merge, the_case>>

\* what the caller of paipan(time_str) gets: the ChartResult or the exception
Called(time_str, out) ==
    [called |-> TRUE, time_str |-> time_str, exc |-> out.exc,
     steps |-> out.steps, returned |-> out.exc = "",
     chart |-> IF out.exc = "" THEN out.result ELSE ChartResult,
     walks |-> out.walks,
     \* how the call before this one ended
     prev_exc |-> last.exc,
     \* whether this timestamp had been cast before
     repeat |-> IF time_str \in ValidStamps THEN seen[time_str].cast ELSE FALSE]

\* the first chart returned for each timestamp
Remember(call) ==
    IF call.time_str \in ValidStamps /\ call.returned /\ ~seen[call.time_str].cast
    THEN [seen EXCEPT ![call.time_str] = [cast |-> TRUE, chart |-> call.chart]]
    ELSE seen

\* engine.paipan(time_str)
Paipan(time_str) ==
    /\ engine.state = "ready"
    /\ last' = Called(time_str, paipan(engine.data, calendar, time_str))
    /\ seen' = Remember(last')
    /\ UNCHANGED <<doc, calendar, engine, held, built, threads, merge, the_case>>

Next ==
    \/ Construct
    \/ \E time_str \in TimeStrs : Paipan(time_str)

Spec == Init /\ [][Next]_vars

\* Casts of one timestamp on the engine built from the valid document,
\* under every resolver of the bound.
InitCast ==
    /\ doc = ValidDoc
    /\ calendar \in Resolvers
    /\ engine = [state |-> "none", data |-> NoData]
    /\ last = NoCall
    /\ seen = [t \in ValidStamps |-> Unseen]
    /\ held = ChartResult
    /\ built = NotBuilt
    /\ threads = NoThreads
    /\ merge = NoMerge
    /\ the_case = NoCase

NextCast ==
    \/ Construct
    \/ Paipan(T1)

SpecCast == InitCast /\ [][NextCast]_vars

\* _build_index on a ChartResult filled by hand, as the unit tests of the
\* index fill one: two palaces hold names in every slot kind, lists hold up
\* to MaxSlots names, a name may repeat and a slot may hold the empty string.
MaxSlots == 2

RECURSIVE Lists(_, _)
Lists(names, n) ==
    IF n = 0 THEN {<<>>}
    ELSE Lists(names, n - 1) \cup {Append(l, x) : l \in {m \in Lists(names, n - 1) : Len(m) = n - 1}, x \in names}

Filled_by_hand(stars, stems, god, gate, star) ==
    [ChartResult EXCEPT
        !.palaces[1] = [@ EXCEPT !.zhi_fu = god, !.tian_pan_stars = stars,
                                 !.di_pan_stems = stems, !.di_pan_gate = gate],
        !.palaces[9] = [@ EXCEPT !.tian_pan_stems = stems, !.di_pan_stems = stems,
                                 !.tian_pan_gates = IF gate = "" THEN <<>> ELSE <<gate, "">>,
                                 !.di_pan_star = star, !.di_pan_gate = gate]]

InitIndex ==
    /\ doc = ValidDoc
    /\ calendar \in {Resolver(0, 0, 0)}
    /\ engine = [state |-> "none", data |-> NoData]
    /\ last = NoCall
    /\ seen = [t \in ValidStamps |-> Unseen]
    /\ held \in {Filled_by_hand(stars, stems, god, gate, star) :
                    stars \in Lists({"", "Rui", "Qin"}, MaxSlots),
                    stems \in Lists({"", "Wu"}, MaxSlots),
                    god \in {"", "fu"}, gate \in {"", "Xiu"}, star \in {"", "Rui"}}
    /\ built = NotBuilt
    /\ threads = NoThreads
    /\ merge = NoMerge
    /\ the_case = NoCase

\* index = result._build_index()
BuildIndex ==
    /\ built' = [called |-> TRUE, index |-> _build_index(held)]
    /\ UNCHANGED <<doc, calendar, engine, last, seen, held, threads, merge, the_case>>

NextIndex == BuildIndex

SpecIndex == InitIndex /\ [][NextIndex]_vars

\* Casts of several threads on the one engine, a step of PIPELINE at a
\* time.  A frame holds the local variables of one cast.

\* the exception leaves paipan
Fail(f, exc) == [f EXCEPT !.state = "raised", !.exc = exc]

Done(f) == [f EXCEPT !.pc = @ + 1]

\* lines 31-44
step_strptime(f) ==
    IF Len(f.time_str) # 14 \/ ~isdigit(f.time_str) THEN Fail(f, "ValueError")
    ELSE IF strptime(f.time_str).exc # "" THEN Fail(f, strptime(f.time_str).exc)
    ELSE Done([f EXCEPT !.target_dt = strptime(f.time_str).val,
                        !.result = [ChartResult EXCEPT
                                       !.qi_ju_time = strftime(strptime(f.time_str).val)]])

\* lines 53-54
step_find_yuan(f, yuan) ==
    IF yuan.exc # "" THEN Fail(f, yuan.exc) ELSE Done([f EXCEPT !.yuan = yuan.val])

step_find_ju_shu(f, ju) ==
    IF ju.exc # "" THEN Fail(f, ju.exc) ELSE Done([f EXCEPT !.result.ju_shu_info = ju.val])

\* line 60
step_find_shi_chen_xun(f, xun) ==
    IF xun.exc # "" THEN Fail(f, xun.exc) ELSE Done([f EXCEPT !.result.shi_chen_xun = xun.val])

\* line 61
step_find_zhi_fu_zhi_shi(f, chief) ==
    IF chief.exc # "" THEN Fail(f, chief.exc)
    ELSE Done([f EXCEPT !.zhi_fu_star = chief.val.zhi_fu_star,
                        !.result.zhi_shi = chief.val.zhi_shi])

\* line 62
step_zhi_fu(f) ==
    IF f.zhi_fu_star = <<>> THEN Fail(f, "TypeError")
    ELSE Done([f EXCEPT !.result.zhi_fu = f.zhi_fu_star[1].cn])

\* line 65
step_layout_ba_shen(f, gods) ==
    IF gods.exc # "" THEN Fail(f, gods.exc)
    ELSE Done([f EXCEPT !.ba_shen_layout = gods.val.layout])

\* line 68
step_layout_tian_pan_and_stars(f, tian) ==
    IF tian.exc # "" THEN Fail(f, tian.exc)
    ELSE Done([f EXCEPT !.tian_pan_stems = tian.val.tian_pan_stems,
                        !.tian_pan_stars = tian.val.tian_pan_stars])

\* line 72
step_layout_ba_men(f, men) ==
    IF men.exc # "" THEN Fail(f, men.exc) ELSE Done([f EXCEPT !.ba_men_layout = men.val.layout])

\* line 76
step_find_kong_wang(f, kong) ==
    IF kong.exc # "" THEN Fail(f, kong.exc) ELSE Done([f EXCEPT !.result.kong_wang = kong.val])

\* line 95
step_calculate_annotations(f) ==
    IF ~known_branches(f.result) THEN Fail(f, "KeyError")
    ELSE Done([f EXCEPT !.result.side_annotations =
                  _calculate_annotations(f.result, f.di_pan_stems, f.tian_pan_stems)])

\* lines 98-100
step_return(f) ==
    [f EXCEPT !.state = "returned", !.pc = @ + 1,
              !.result.maxing_chongdong_targets = _analyze_maxing_chongdong(f.result)]

\* the step of PIPELINE a cast takes next, on its locals f and self.data
cast_step(data, cal, f, step) ==
    CASE step = "strptime" -> step_strptime(f)
      [] step = "get_solar_term" -> Done([f EXCEPT !.result.jieqi = cal[f.target_dt].jieqi])
      [] step = "get_si_zhu" -> Done([f EXCEPT !.result.si_zhu = cal[f.target_dt].si_zhu])
      [] step = "_find_yuan" ->
            step_find_yuan(f, _find_yuan(data, f.result.si_zhu.ri[1], f.result.si_zhu.ri[2]))
      [] step = "_find_ju_shu" -> step_find_ju_shu(f, _find_ju_shu(data, f.result.jieqi, f.yuan))
      [] step = "_layout_di_pan" ->
            Done([f EXCEPT !.di_pan_stems = _layout_di_pan(f.result.ju_shu_info)])
      [] step = "_find_shi_chen_xun" ->
            step_find_shi_chen_xun(
                f, _find_shi_chen_xun(data, f.result.si_zhu.shi[1], f.result.si_zhu.shi[2]))
      [] step = "_find_zhi_fu_zhi_shi" ->
            step_find_zhi_fu_zhi_shi(
                f, _find_zhi_fu_zhi_shi(data, f.result.shi_chen_xun, f.di_pan_stems))
      [] step = "zhi_fu" -> step_zhi_fu(f)
      [] step = "_layout_ba_shen" ->
            step_layout_ba_shen(
                f, _layout_ba_shen(f.result.si_zhu.shi[1], f.di_pan_stems,
                                   f.result.ju_shu_info, f.result.shi_chen_xun))
      [] step = "_layout_tian_pan_and_stars" ->
            step_layout_tian_pan_and_stars(
                f, _layout_tian_pan_and_stars(data, f.result.si_zhu.shi[1], f.di_pan_stems,
                                              f.zhi_fu_star[1], f.result.shi_chen_xun))
      [] step = "_layout_ba_men" ->
            step_layout_ba_men(
                f, _layout_ba_men(data, f.result.si_zhu.shi[2], f.result.shi_chen_xun.zhi,
                                  f.result.zhi_shi, f.result.ju_shu_info))
      [] step = "_find_ma_xing" ->
            Done([f EXCEPT !.result.ma_xing = _find_ma_xing(f.result.si_zhu.shi[2])])
      [] step = "_find_kong_wang" ->
            step_find_kong_wang(f, _find_kong_wang(data, f.result.si_zhu.ri, f.result.si_zhu.shi))
      [] step = "palaces" ->
            Done([f EXCEPT !.result.palaces =
                     fill_palaces(data, @, f.di_pan_stems, f.tian_pan_stems, f.tian_pan_stars,
                                  f.ba_men_layout, f.ba_shen_layout)])
      [] step = "_calculate_annotations" -> step_calculate_annotations(f)
      [] step = "_analyze_maxing_chongdong" -> step_return(f)

\* the timestamp a thread casts
stamp_of(t) == IF t % 2 = 1 THEN T1 ELSE T2

\* another cast is between its first step and its last
under_way(t) == \E u \in Threads \ {t} : threads[u].state = "running" /\ threads[u].pc > 0

\* the local variables of thread t's cast, read from the frame of thread 1
locals_of_first(t) == [threads[t] EXCEPT !.result = threads[1].result]

\* the local variables of thread t's cast: its own frame
locals(t) == threads[t]

\* thread t calls engine.paipan(stamp_of(t))
Begin(t) ==
    /\ engine.state = "ready"
    /\ threads[t].state = "idle"
    /\ threads' = [threads EXCEPT ![t] = [NoFrame EXCEPT !.state = "running",
                                                         !.time_str = stamp_of(t)]]
    /\ UNCHANGED <<doc, calendar, engine, last, seen, held, built, merge, the_case>>

\* thread t takes the next step of its cast
Step(t) ==
    /\ threads[t].state = "running"
    /\ threads' = [threads EXCEPT
                      ![t] = [cast_step(engine.data, calendar, locals(t), At(PIPELINE, threads[t].pc))
                                 EXCEPT !.overlapped = @ \/ under_way(t)]]
    /\ UNCHANGED <<doc, calendar, engine, last, seen, held, built, merge, the_case>>

NextThreads ==
    \/ Construct
    \/ \E t \in Threads : Begin(t)
    \/ \E t \in Threads : Step(t)

InitThreads ==
    /\ doc = ValidDoc
    /\ calendar \in {Resolver(k, d, h) : k \in {6, 18}, d \in {0, 5}, h \in {10}}
    /\ engine = [state |-> "none", data |-> NoData]
    /\ last = NoCall
    /\ seen = [t \in ValidStamps |-> Unseen]
    /\ held = ChartResult
    /\ built = NotBuilt
    /\ threads = NoThreads
    /\ merge = NoMerge
    /\ the_case = NoCase

SpecThreads == InitThreads /\ [][NextThreads]_vars

\* What a returned ChartResult shares with self.data.  _find_shi_chen_xun
\* returns jiazi['xun'], the dict of the table row itself, and
\* _find_kong_wang returns j['kong'], the list of the table row itself:
\* result.shi_chen_xun and the two lists of result.kong_wang are those
\* objects, not copies.  A row is named by its 1-based place in the table.

\* the row whose 'xun' dict _find_shi_chen_xun returns for a pillar
xun_row(data, pillar) ==
    CHOOSE i \in 1..Len(data.liuShiJiaZi) :
        /\ data.liuShiJiaZi[i].gan = pillar[1] /\ data.liuShiJiaZi[i].zhi = pillar[2]
        /\ \A j \in 1..(i - 1) :
               ~(data.liuShiJiaZi[j].gan = pillar[1] /\ data.liuShiJiaZi[j].zhi = pillar[2])

\* the row whose 'kong' list _find_kong_wang returns for a pillar
kong_row(data, pillar) ==
    CHOOSE i \in 1..Len(data.liuShiJiaZi) :
        /\ data.liuShiJiaZi[i].xun.zhi = data.liuShiJiaZi[xun_row(data, pillar)].xun.zhi
        /\ \A j \in 1..(i - 1) :
               data.liuShiJiaZi[j].xun.zhi # data.liuShiJiaZi[xun_row(data, pillar)].xun.zhi

\* result.shi_chen_xun['jun'] = stem, on the result the last cast returned
SetXunJun(stem) ==
    /\ engine.state = "ready" /\ last.returned
    /\ stem # last.chart.shi_chen_xun.jun
    /\ engine' = [engine EXCEPT
                    !.data.liuShiJiaZi[xun_row(engine.data, last.chart.si_zhu.shi)].xun.jun = stem]
    /\ last' = [last EXCEPT !.chart.shi_chen_xun.jun = stem]
    /\ UNCHANGED <<doc, calendar, seen, held, built, threads, merge, the_case>>

\* result.kong_wang['day'][0] = branch, on the result the last cast
\* returned; the hour list is the same list when both pillars lie in one xun
SetDayVoid(branch) ==
    /\ engine.state = "ready" /\ last.returned
    /\ branch # last.chart.kong_wang.ri[1]
    /\ engine' = [engine EXCEPT
                    !.data.liuShiJiaZi[kong_row(engine.data, last.chart.si_zhu.ri)].kong[1] = branch]
    /\ last' = [last EXCEPT
                    !.chart.kong_wang.ri[1] = branch,
                    !.chart.kong_wang.shi =
                        IF kong_row(engine.data, last.chart.si_zhu.shi)
                               = kong_row(engine.data, last.chart.si_zhu.ri)
                        THEN [@ EXCEPT ![1] = branch] ELSE @]
    /\ UNCHANGED <<doc, calendar, seen, held, built, threads, merge, the_case>>

\* casts on the valid document, with a caller that writes to the results
NextShared ==
    \/ Construct
    \/ \E time_str \in ValidStamps : Paipan(time_str)
    \/ \E stem \in {"Wu", "Gui"} : SetXunJun(stem)
    \/ \E branch \in {"zi", "xu"} : SetDayVoid(branch)

InitShared ==
    /\ doc = ValidDoc
    /\ calendar \in FewResolvers
    /\ engine = [state |-> "none", data |-> NoData]
    /\ last = NoCall
    /\ seen = [t \in ValidStamps |-> Unseen]
    /\ held = ChartResult
    /\ built = NotBuilt
    /\ threads = NoThreads
    /\ merge = NoMerge
    /\ the_case = NoCase

SpecShared == InitShared /\ [][NextShared]_vars

----------------------------------------------------------------------------
(* The merge pass on one branch's list, whatever the order of its records *)

MaxRecords == 3     \* records in the list handed to the merge pass

\* records of the kinds the four analyzers append
Records ==
    {Anno("liuji", <<"Ji", "jixing">>, FALSE),
     Anno("rumu", <<"Ding", "rumu">>, FALSE), Anno("rumu", <<"Ji", "rumu">>, FALSE),
     Anno("rikong", <<"rikong">>, FALSE), Anno("shikong", <<"shikong">>, FALSE),
     Anno("yueling", <<"yueling">>, FALSE), Anno("maxing", <<"maxing">>, FALSE)}

InitMerge ==
    /\ doc = ValidDoc
    /\ calendar \in {Resolver(0, 0, 0)}
    /\ engine = [state |-> "none", data |-> NoData]
    /\ last = NoCall
    /\ seen = [t \in ValidStamps |-> Unseen]
    /\ held = ChartResult
    /\ built = NotBuilt
    /\ threads = NoThreads
    /\ merge \in {[NoMerge EXCEPT !.di_zhi = "chou", !.annotation_list = l] :
                     l \in Lists(Records, MaxRecords)}
    /\ the_case = NoCase

\* self._process_double_annotations_structured(annotations), the map
\* holding the list at one branch; the pass replaces the list in place
ProcessDouble ==
    /\ ~merge.called
    /\ merge' = [merge EXCEPT
                    !.called = TRUE,
                    !.new_annotations =
                        _process_double_annotations_structured(
                            [NoAnnotations EXCEPT ![merge.di_zhi] = merge.annotation_list]
                        )[merge.di_zhi]]
    /\ UNCHANGED <<doc, calendar, engine, last, seen, held, built, threads, the_case>>

NextMerge == ProcessDouble

SpecMerge == InitMerge /\ [][NextMerge]_vars

\* The layer methods of a Case, called in any order with valid and invalid
\* indices.
LayerIndices == -1..MaxLayers

\* what the variables of the engine hold here: a Case is used without one
Unused == <<>>

InitCase ==
    /\ doc = Unused
    /\ calendar = Unused
    /\ engine = Unused
    /\ last = Unused
    /\ seen = Unused
    /\ held = Unused
    /\ built = Unused
    /\ threads = Unused
    /\ merge = Unused
    /\ the_case = NoCase

\* the Case after a call of a method that returns a bool
CaseCalled(op, layer_index, out) ==
    [state |-> "made", self |-> out.self,
     call |-> [op |-> op, layer_index |-> layer_index, ret |-> out.ret, new_index |-> -1,
               before |-> the_case.self]]

\* case = Case(title, chart_result)
NewCase ==
    /\ the_case.state = "none"
    /\ the_case' = [state |-> "made", self |-> Case, call |-> NoCaseCall]
    /\ UNCHANGED <<doc, calendar, engine, last, seen, held, built, threads, merge>>

AddLayer(name) ==
    /\ the_case.state = "made"
    /\ Len(the_case.self.annotation_layers) < MaxLayers
    /\ the_case' = [state |-> "made", self |-> add_layer(the_case.self, name).self,
                    call |-> [op |-> "add_layer", layer_index |-> -1, ret |-> FALSE,
                              new_index |-> add_layer(the_case.self, name).ret,
                              before |-> the_case.self]]
    /\ UNCHANGED <<doc, calendar, engine, last, seen, held, built, threads, merge>>

RemoveLayer(layer_index) ==
    /\ the_case.state = "made"
    /\ the_case' = CaseCalled("remove_layer", layer_index,
                              remove_layer(the_case.self, layer_index))
    /\ UNCHANGED <<doc, calendar, engine, last, seen, held, built, threads, merge>>

RenameLayer(layer_index, new_name) ==
    /\ the_case.state = "made"
    /\ the_case' = CaseCalled("rename_layer", layer_index,
                              rename_layer(the_case.self, layer_index, new_name))
    /\ UNCHANGED <<doc, calendar, engine, last, seen, held, built, threads, merge>>

SetLayerVisibility(layer_index, visible) ==
    /\ the_case.state = "made"
    /\ the_case' = CaseCalled("set_layer_visibility", layer_index,
                              set_layer_visibility(the_case.self, layer_index, visible))
    /\ UNCHANGED <<doc, calendar, engine, last, seen, held, built, threads, merge>>

SetActiveLayer(layer_index) ==
    /\ the_case.state = "made"
    /\ the_case' = CaseCalled("set_active_layer", layer_index,
                              set_active_layer(the_case.self, layer_index))
    /\ UNCHANGED <<doc, calendar, engine, last, seen, held, built, threads, merge>>

NextCase ==
    \/ NewCase
    \/ AddLayer("new")
    \/ \E layer_index \in LayerIndices : RemoveLayer(layer_index)
    \/ \E layer_index \in LayerIndices : RenameLayer(layer_index, "renamed")
    \/ \E layer_index \in LayerIndices : \E visible \in BOOLEAN :
           SetLayerVisibility(layer_index, visible)
    \/ \E layer_index \in LayerIndices : SetActiveLayer(layer_index)

SpecCase == InitCase /\ [][NextCase]_vars

----------------------------------------------------------------------------
(* Properties *)

BadFormat(time_str) ==
    \/ Len(time_str) # 14
    \/ \E i \in 1..Len(time_str) : time_str[i] \notin Range(AsciiDigits)

Lookups == Range(PIPELINE) \ {"strptime"}

\* C1: a string whose length is not 14 or that holds a character other than
\* 0..9 is rejected with ValueError before the calendar or any table is
\* consulted, no ChartResult comes back, and the engine is still there: the
\* cast that follows a rejected call on the valid document returns a chart.
C1_FormatError ==
    /\ (last.called /\ BadFormat(last.time_str)) =>
            /\ last.exc = "ValueError"
            /\ Range(last.steps) \cap Lookups = {}
            /\ ~last.returned
            /\ last.chart = ChartResult
            /\ engine.state = "ready"
    /\ (last.called /\ last.prev_exc = "ValueError" /\ doc = ValidDoc
            /\ last.time_str \in ValidStamps) => last.returned

C1_Witness ==
    /\ last.called /\ BadFormat(last.time_str) /\ last.exc = "ValueError"
    /\ Len(last.time_str) = 14 - MaxPad
    /\ seen[T1].cast

\* a cast that returns right after a rejected call
C1_WitnessLater ==
    /\ last.called /\ last.prev_exc = "ValueError" /\ last.returned

LastMoment == calendar[strptime(last.time_str).val]

InTable(pillar) ==
    \E i \in 1..Len(doc.liuShiJiaZi) :
        doc.liuShiJiaZi[i].gan = pillar[1] /\ doc.liuShiJiaZi[i].zhi = pillar[2]

RowOf(pillar) ==
    doc.liuShiJiaZi[CHOOSE i \in 1..Len(doc.liuShiJiaZi) :
        doc.liuShiJiaZi[i].gan = pillar[1] /\ doc.liuShiJiaZi[i].zhi = pillar[2]]

Names(catalog) == {catalog[i].cn : i \in 1..Len(catalog)}
Homes(catalog) == {catalog[i].guxiang : i \in 1..Len(catalog)}

DayPillarAbsent == ~InTable(LastMoment.si_zhu.ri)
HourPillarAbsent == ~InTable(LastMoment.si_zhu.shi)
TermAbsent == LastMoment.jieqi \notin DOMAIN doc.jieQiJuShu
EraAbsent ==
    /\ ~DayPillarAbsent /\ ~TermAbsent
    /\ RowOf(LastMoment.si_zhu.ri).yuan \notin DOMAIN doc.jieQiJuShu[LastMoment.jieqi].jv
\* the earth plate lists the nine stems of stems_order and no other
StemAbsent ==
    /\ ~HourPillarAbsent
    /\ \/ RowOf(LastMoment.si_zhu.shi).xun.jun \notin Range(stems_order)
       \/ LastMoment.si_zhu.shi[1] \notin Range(stems_order) \cup {"Jia"}
StarAbsent == ~(JiuXingCn \subseteq Names(doc.jiuXing))
\* the chief gate is the gate at home in the palace of the xun stem
GateAbsent ==
    /\ ~DayPillarAbsent /\ ~TermAbsent /\ ~EraAbsent /\ ~HourPillarAbsent /\ ~StemAbsent
    /\ LET ju == [dun |-> doc.jieQiJuShu[LastMoment.jieqi].yinyang,
                  ju |-> doc.jieQiJuShu[LastMoment.jieqi].jv[RowOf(LastMoment.si_zhu.ri).yuan]]
           i == IndexOf(stems_order, RowOf(LastMoment.si_zhu.shi).xun.jun)
           home == di_pan_palace(ju, i)
       IN  (IF home = 5 THEN 2 ELSE home) \notin Homes(doc.baMen)
BranchAbsent ==
    \/ LastMoment.si_zhu.shi[2] \notin Names(doc.diZhi)
    \/ ~HourPillarAbsent /\ RowOf(LastMoment.si_zhu.shi).xun.zhi \notin Names(doc.diZhi)

StepFails ==
    \/ doc.root # "object" \/ doc.keys # TableNames
    \/ DayPillarAbsent \/ HourPillarAbsent \/ TermAbsent \/ EraAbsent
    \/ StemAbsent \/ StarAbsent \/ GateAbsent \/ BranchAbsent

\* every field a cast assigns holds a value of the layouts
Filled(chart) ==
    /\ chart.jieqi # "" /\ chart.ju_shu_info.ju \in 1..9
    /\ chart.zhi_fu \in JiuXingCn /\ chart.zhi_shi \in Range(men_order_cn)
    /\ chart.ma_xing \in Range(DiZhiCn)
    /\ Len(chart.kong_wang.ri) = 2 /\ Len(chart.kong_wang.shi) = 2
    /\ chart.palaces[0] = Palace(0)
    /\ \A p \in 1..9 :
          /\ chart.palaces[p].earth_stems # <<>>
          /\ chart.palaces[p].heaven_stems # <<>>
          /\ chart.palaces[p].stars # <<>>
          /\ p # 5 => chart.palaces[p].god # "" /\ chart.palaces[p].gates # ""

\* C3: a cast in which a step does not find what it looks for (the day or
\* hour pillar in the sexagenary table, the solar term or the era in the
\* pattern table, the sought stem on the earth plate, a star, the chief gate
\* or a branch in its catalog) ends in an exception and hands back no
\* ChartResult; a chart that is returned went through every step, no walk
\* started from a palace outside the flying path, and every field the cast
\* assigns is filled.
C3_NoPartialResult ==
    /\ (last.called /\ last.time_str \in ValidStamps /\ StepFails) =>
            /\ last.exc # "" /\ ~last.returned /\ last.chart = ChartResult
    /\ (last.called /\ last.returned) =>
            /\ last.steps = PIPELINE
            /\ \A w \in {last.walks.gods, last.walks.stars, last.walks.gates} :
                   \A i \in 1..Len(w) : w[i].palace \in Range(LUO_SHU_PATH)
            /\ Filled(last.chart)

\* the xun stem of the hour is on no palace of the earth plate
C3_Witness ==
    /\ last.called /\ last.time_str \in ValidStamps
    /\ doc.root = "object" /\ doc.keys = TableNames
    /\ StemAbsent /\ ~DayPillarAbsent /\ ~TermAbsent /\ ~EraAbsent
    /\ last.exc = "TypeError" /\ ~last.returned

\* a well-formed document lacking one of the named tables
StructurallyInvalid == doc.kind = "json" /\ (doc.root # "object" \/ doc.keys # TableNames)

\* C4: construction fails when the document is missing, is not well-formed,
\* or is well-formed but lacks one of the five named tables; no engine built
\* from a structurally invalid document ever gets to run a cast.
C4_ConstructionRejects ==
    /\ (engine.state # "none" /\ (doc.kind # "json" \/ StructurallyInvalid)) =>
            engine.state = "failed"
    /\ last.called => ~StructurallyInvalid

earth(p) == last.chart.palaces[p].earth_stems

\* C5: on the earth plate of a returned chart, for either polarity and any
\* pattern number, every palace 1..9 has exactly one stem of its own, the
\* nine own stems are the nine stems of stems_order (each in one palace),
\* palace 2 lists two stems, the second being palace 5's, and every other
\* palace lists one.
C5_StemCoverage ==
    (last.called /\ last.returned) =>
        /\ \A p \in 1..9 : Len(earth(p)) = IF p = 2 THEN 2 ELSE 1
        /\ \A i \in 1..Len(stems_order) :
               Cardinality({p \in 1..9 : earth(p)[1] = stems_order[i]}) = 1
        /\ \A p \in 1..9 : earth(p)[1] \in Range(stems_order)
        /\ earth(2)[2] = earth(5)[1]
        /\ \A i \in 1..Len(stems_order) :
               {p \in 1..9 : stems_order[i] \in Range(earth(p))}
                   = IF stems_order[i] = earth(5)[1] THEN {2, 5}
                     ELSE {CHOOSE p \in 1..9 : earth(p)[1] = stems_order[i]}

C5_Witness ==
    /\ last.called /\ last.returned
    /\ last.chart.ju_shu_info = [dun |-> "yin", ju |-> 3]
    /\ earth(2) = <<"Ji", "Bing">> /\ earth(5) = <<"Bing">>

PathPalaces == Range(LUO_SHU_PATH)

\* a walk gives each item of the sequence to one path palace, one to one
Closed(walk, items) ==
    /\ Len(walk) = 8
    /\ {walk[i].palace : i \in 1..8} = PathPalaces
    /\ {walk[i].item : i \in 1..8} = Range(items)
    /\ \A i \in 1..8 : walk[i].palace # 5

\* C6: in a returned chart the god walk, the star walk and the gate walk
\* each assign their 8 items one to one to the 8 path palaces and never to
\* palace 5; every path palace ends with one god, one traveling star and one
\* gate, those its walk gave it.
C6_PathClosure ==
    (last.called /\ last.returned) =>
        /\ Closed(last.walks.gods, gods_order)
        /\ Closed(last.walks.stars, stars_order_cn)
        /\ Closed(last.walks.gates, men_order_cn)
        /\ \A i \in 1..8 :
              /\ last.chart.palaces[last.walks.gods[i].palace].god = last.walks.gods[i].item
              /\ last.chart.palaces[last.walks.gates[i].palace].gates = last.walks.gates[i].item
              /\ SelectSeq(last.chart.palaces[last.walks.stars[i].palace].stars,
                           LAMBDA x : x # "Qin") = <<last.walks.stars[i].item>>

\* a Yin cast whose god walk runs backwards from palace 2
C6_Witness ==
    /\ last.called /\ last.returned
    /\ last.chart.ju_shu_info.dun = "yin" /\ last.chart.zhi_fu = "Rui"
    /\ Closed(last.walks.gods, gods_order)
    /\ last.walks.gods[1].palace = 2 /\ last.walks.gods[2].palace = 9
    /\ Closed(last.walks.stars, stars_order_cn) /\ last.walks.stars[1].item = "Rui"
    /\ Closed(last.walks.gates, men_order_cn)

center == last.chart.palaces[5]

NoWalkAtCenter ==
    \A w \in {last.walks.gods, last.walks.stars, last.walks.gates} :
        \A i \in 1..Len(w) : w[i].palace # 5

annotations_at(z) == last.chart.side_annotations[z]
day_void == Range(last.chart.kong_wang.ri)
hour_void == Range(last.chart.kong_wang.shi)
yue_zhi_of_chart == last.chart.si_zhu.yue[2]

\* the void records of a branch, of any of the three kinds
voids(z) ==
    SelectSeq(annotations_at(z), LAMBDA a : a.type \in {"rikong", "shikong", "shuangkong"})

\* C8: in the annotation map of a returned chart a branch that is both a
\* day-void and an hour-void branch carries exactly one void record, of the
\* double-void kind, and no day-void or hour-void record; the record is
\* struck exactly when the branch is the month branch, which is when its
\* contributing records were struck.
C8_VoidMerge ==
    (last.called /\ last.returned) =>
        \A z \in day_void \cap hour_void :
            /\ Len(voids(z)) = 1
            /\ voids(z)[1].type = "shuangkong"
            /\ voids(z)[1].text = <<"shuang", z, "kong">>
            /\ voids(z)[1].strike = (z = yue_zhi_of_chart)

\* a double-void branch that is the month branch, and one that is not
C8_Witness ==
    /\ last.called /\ last.returned
    /\ day_void = hour_void
    /\ \E z \in day_void \cap hour_void :
          z = yue_zhi_of_chart /\ voids(z) = <<Anno("shuangkong", <<"shuang", z, "kong">>, TRUE)>>
    /\ \E z \in day_void \cap hour_void :
          z # yue_zhi_of_chart /\ voids(z) = <<Anno("shuangkong", <<"shuang", z, "kong">>, FALSE)>>

targets == last.chart.maxing_chongdong_targets
ben_gong == zhi_to_gong_map[last.chart.ma_xing]
ben_zhi == Range(gong_to_zhi_list_map[ben_gong])
dui_zhi == Range(gong_to_zhi_list_map[dui_gong_map[ben_gong]])

\* the positions of the tomb records at a branch
tombs_at(z) == {i \in 1..Len(annotations_at(z)) : annotations_at(z)[i].type = "rumu"}

\* C9: when the annotation map of a returned chart has a tomb record at a
\* branch of the horse branch's own palace, the chongdong targets are the
\* tomb records at the branches of that palace, every one of them and each
\* once; none is a void record and none lies in the opposite palace.
C9_ChongdongPriority ==
    (last.called /\ last.returned /\ \E z \in ben_zhi : tombs_at(z) # {}) =>
        /\ \A k \in 1..Len(targets) :
              /\ targets[k].type = "rumu"
              /\ targets[k].location_zhi \in ben_zhi
              /\ targets[k].location_zhi \notin dui_zhi
              /\ \E i \in tombs_at(targets[k].location_zhi) :
                     annotations_at(targets[k].location_zhi)[i].text = targets[k].text
        /\ \A z \in ben_zhi : \A i \in tombs_at(z) :
              Cardinality({k \in 1..Len(targets) :
                  targets[k] = Target(annotations_at(z)[i], z)}) = 1
        /\ Len(targets) = Cardinality(UNION {{<<z, i>> : i \in tombs_at(z)} : z \in ben_zhi})

\* two tomb records in the horse's palace, which also holds a void record,
\* and a tomb record in the opposite palace
C9_Witness ==
    /\ last.called /\ last.returned
    /\ Len(targets) = 2
    /\ \E z \in ben_zhi : Cardinality(tombs_at(z)) = 2
    /\ \E z \in ben_zhi : voids(z) # <<>>
    /\ \E z \in dui_zhi : tombs_at(z) # {}

\* C10: in a returned chart every branch reported as an hour-void branch
\* carries exactly one void record at that branch, of the hour-void kind, or
\* of the double-void kind when the branch is a day-void branch too, and no
\* branch outside the reported hour-void branches carries an hour-void
\* record.
C10_VoidReportAgrees ==
    (last.called /\ last.returned) =>
        /\ \A z \in hour_void :
              /\ Len(voids(z)) = 1
              /\ voids(z)[1].type = IF z \in day_void THEN "shuangkong" ELSE "shikong"
        /\ \A z \in Range(DiZhiCn) \ hour_void :
              \A i \in 1..Len(annotations_at(z)) : annotations_at(z)[i].type # "shikong"

\* an hour-void branch that carries tomb records besides its void record,
\* next to day-void branches that are not hour-void
C10_Witness ==
    /\ last.called /\ last.returned
    /\ day_void \cap hour_void = {}
    /\ \E z \in hour_void :
          /\ Cardinality(tombs_at(z)) >= 2
          /\ voids(z) = <<Anno("shikong", <<"shikong">>, z = yue_zhi_of_chart)>>

\* the value slots of a palace: attribute name, category, sub-index
ListSlots == {<<"tian_pan_stars", "jiuXing">>, <<"tian_pan_gates", "baMen">>,
              <<"tian_pan_stems", "tianGan">>, <<"di_pan_stems", "tianGan">>}
OneSlots == {<<"zhi_fu", "baShen">>, <<"di_pan_star", "jiuXing">>, <<"di_pan_gate", "baMen">>}

\* the live value of the slot (palace, attribute, sub-index) of a chart,
\* "" when there is no such slot
live(chart, p, attribute_name, sub_index) ==
    IF sub_index = None
    THEN IF attribute_name \in {a[1] : a \in OneSlots} THEN chart.palaces[p][attribute_name] ELSE ""
    ELSE IF attribute_name \in {a[1] : a \in ListSlots}
            /\ sub_index \in 0..(Len(chart.palaces[p][attribute_name]) - 1)
         THEN At(chart.palaces[p][attribute_name], sub_index)
         ELSE ""

\* the non-empty value slots of palaces 1..9
slots(chart) ==
    {<<p, a[1], a[2], None>> : p \in 1..9, a \in OneSlots}
    \cup UNION {{<<p, a[1], a[2], i - 1>> : i \in 1..Len(chart.palaces[p][a[1]])} :
                    p \in 1..9, a \in ListSlots}

full_slots(chart) == {sl \in slots(chart) : live(chart, sl[1], sl[2], sl[4]) # ""}

\* the location entries of an index: category, name filed under, entry
entries(index) ==
    UNION {UNION {{[type |-> t, name |-> n, k |-> k, loc |-> index[t][n][k]] :
                      k \in 1..Len(index[t][n])} : n \in DOMAIN index[t]} : t \in DOMAIN index}

sub_of(loc) == IF "sub_index" \in DOMAIN loc THEN loc.sub_index ELSE None

\* C11: the index _build_index returns for a hand-filled chart has exactly
\* one location entry per non-empty value slot of palaces 1..9; the slot an
\* entry designates by palace, attribute and sub-index holds the entry's
\* text, which is the name the entry is filed under, in the category of
\* that attribute; and the ids of the entries are pairwise distinct.
C11_IndexRoundTrip ==
    built.called =>
        /\ \A e \in entries(built.index) :
              /\ <<e.loc.palace_index, e.loc.attribute_name, e.type, sub_of(e.loc)>>
                     \in full_slots(held)
              /\ live(held, e.loc.palace_index, e.loc.attribute_name, sub_of(e.loc)) = e.loc.text
              /\ e.loc.text = e.name
              /\ e.loc.param_type = e.type
        /\ \A sl \in full_slots(held) :
              Cardinality({e \in entries(built.index) :
                  <<e.loc.palace_index, e.loc.attribute_name, e.type, sub_of(e.loc)>> = sl}) = 1
        /\ Cardinality(entries(built.index)) = Cardinality(full_slots(held))
        /\ Cardinality({e.loc.id : e \in entries(built.index)})
               = Cardinality(entries(built.index))

\* a name held twice in one list and once more in another palace, next to
\* an empty slot
C11_Witness ==
    /\ built.called
    /\ held.palaces[1].tian_pan_stars = <<"Rui", "Rui">>
    /\ held.palaces[9].di_pan_star = "Rui"
    /\ held.palaces[9].tian_pan_gates = <<"Xiu", "">>
    /\ Len(built.index["jiuXing"]["Rui"]) = 3
    /\ built.index["jiuXing"]["Rui"][2].id = "palace_1_tian_pan_stars_1"
    /\ built.index["jiuXing"]["Rui"][3].id = "palace_9_di_pan_star"
    /\ DOMAIN built.index["baMen"] = {"Xiu"}

IndexCategories == {"baShen", "jiuXing", "baMen", "tianGan"}

\* C12: the ChartResult a successful cast returns carries a reverse index
\* built from that cast's palaces: the four categories are present, there
\* are at least 36 location entries, every entry lies in a palace 1..9 and
\* the ids are pairwise distinct.
C12_IndexPopulated ==
    (last.called /\ last.returned) =>
        /\ IndexCategories \subseteq DOMAIN last.chart.index
        /\ Cardinality(entries(last.chart.index)) >= 36
        /\ \A e \in entries(last.chart.index) : e.loc.palace_index \in 1..9
        /\ Cardinality({e.loc.id : e \in entries(last.chart.index)})
               = Cardinality(entries(last.chart.index))

\* what a returned chart holds instead: the index is the empty dict of
\* ChartResult.__init__, and _build_index called on the chart finds no slot
\* to file, the cast having filled none of the attributes it reads
C12_IndexEmpty ==
    (last.called /\ last.returned) =>
        /\ last.chart.index = EmptyDict
        /\ _build_index(last.chart) = EmptyDict
        /\ full_slots(last.chart) = {}

\* C13: a returned ChartResult shares nothing with the reference tables:
\* whatever a caller writes into the results it was given, the tables of
\* the engine stay the tables that were loaded, and a cast of any timestamp
\* still gives what it gives on the tables as loaded.
C13_FreshPerCast ==
    engine.state = "ready" =>
        /\ engine.data = doc
        /\ \A t \in ValidStamps : paipan(engine.data, calendar, t) = paipan(doc, calendar, t)

\* what holds instead: a write to the xun info or to a void list of a
\* result lands in the sexagenary table, in the row the value was taken from
C13_WriteReachesTable ==
    [][(\E stem \in {"Wu", "Gui"} : SetXunJun(stem)) \/ (\E branch \in {"zi", "xu"} : SetDayVoid(branch))
          => engine'.data.liuShiJiaZi # engine.data.liuShiJiaZi]_vars

\* the outcome of a finished cast: the exception, or the chart returned
outcome(f) == [exc |-> f.exc, chart |-> IF f.exc = "" THEN f.result ELSE ChartResult]

\* what the same call gives when it runs alone on the loaded tables
alone(time_str) ==
    [exc |-> paipan(doc, calendar, time_str).exc,
     chart |-> IF paipan(doc, calendar, time_str).exc = ""
               THEN paipan(doc, calendar, time_str).result ELSE ChartResult]

\* C14: however the steps of the casts of several threads on one engine
\* interleave, a cast that has finished has the outcome the same call has
\* when it runs alone, and the reference tables of the engine are the
\* tables that were loaded.
C14_NoInterference ==
    /\ engine.state = "ready" => engine.data = doc
    /\ \A t \in Threads :
          threads[t].state \in {"returned", "raised"} =>
              outcome(threads[t]) = alone(threads[t].time_str)

\* two casts of different moments, each of which took steps while the
\* other was under way, have both returned, with different charts
C14_Witness ==
    /\ threads[1].state = "returned" /\ threads[2].state = "returned"
    /\ threads[1].overlapped /\ threads[2].overlapped
    /\ threads[1].result # threads[2].result
    /\ threads[1].result.zhi_fu \in JiuXingCn

\* the palace the claim gives to the k-th stem (k = 0..8) of the sequence
\* for pattern number n
walk_palace(dun, n, k) ==
    IF dun = "yang" THEN ((n - 1 + k) % 9) + 1 ELSE ((n - 1 - k + 9) % 9) + 1

\* C15: on the earth plate of a returned chart with pattern number n, the
\* k-th stem (k = 0..8) of Wu Ji Geng Xin Ren Gui Ding Bing Yi is the own
\* stem of palace ((n-1+k) mod 9)+1 under Yang and of ((n-1-k) mod 9)+1
\* under Yin; Wu is the own stem of palace n; and palace 2 lists, after its
\* own stem, the stem dealt to palace 5, every other palace listing only
\* its own.
C15_EarthPlateWalk ==
    (last.called /\ last.returned) =>
        /\ last.chart.ju_shu_info.ju \in 1..9
        /\ last.chart.ju_shu_info.dun \in {"yang", "yin"}
        /\ \A k \in 0..8 :
              earth(walk_palace(last.chart.ju_shu_info.dun, last.chart.ju_shu_info.ju, k))[1]
                  = At(stems_order, k)
        /\ earth(last.chart.ju_shu_info.ju)[1] = "Wu"
        /\ \A p \in 1..9 :
              earth(p) = IF p = 2 THEN <<earth(2)[1], earth(5)[1]>> ELSE <<earth(p)[1]>>

\* Yin pattern 7: Wu in palace 7, Geng dealt to palace 5 and copied to
\* palace 2 behind Gui
C15_Witness ==
    /\ last.called /\ last.returned
    /\ last.chart.ju_shu_info = [dun |-> "yin", ju |-> 7]
    /\ earth(7) = <<"Wu">> /\ earth(6) = <<"Ji">> /\ earth(5) = <<"Geng">>
    /\ earth(2) = <<"Gui", "Geng">> /\ earth(8) = <<"Yi">>

\* the hour stem and the hidden stem of its xun, as the chart reports them
shi_gan == last.chart.si_zhu.shi[1]
jun_gan == last.chart.shi_chen_xun.jun

\* the lowest palace 1..9 whose earth-plate list holds the stem
holder(stem) ==
    CHOOSE p \in 1..9 : stem \in Range(earth(p)) /\ \A q \in 1..(p - 1) : stem \notin Range(earth(q))

\* the catalog names at home in a palace
at_home(catalog, p) == {catalog[i].cn : i \in {j \in 1..Len(catalog) : catalog[j].guxiang = p}}

\* the palace find_stem_palace yields for the hour stem
hour_palace == holder(IF shi_gan = "Jia" THEN jun_gan ELSE shi_gan)

dealt_to_center == earth(5) = <<jun_gan>>

\* C17: when the stem that locates the chief was dealt to palace 5, the
\* cast reports the star Qin as chief star and the gate at home in palace 2
\* as chief gate; otherwise chief star and gate are the catalog entries at
\* home in the palace holding that stem.
C17_CenterChief ==
    (last.called /\ last.returned) =>
        IF dealt_to_center
        THEN /\ last.chart.zhi_fu = "Qin"
             /\ at_home(doc.baMen, 2) = {last.chart.zhi_shi}
        ELSE /\ at_home(doc.jiuXing, holder(jun_gan)) = {last.chart.zhi_fu}
             /\ at_home(doc.baMen, holder(jun_gan)) = {last.chart.zhi_shi}

\* what a cast reports in the center case: the star and the gate at home in
\* palace 2, where the scan meets the copy of palace 5's stem first
C17_CenterReadsPalaceTwo ==
    (last.called /\ last.returned /\ dealt_to_center) =>
        /\ holder(jun_gan) = 2
        /\ last.chart.zhi_fu = "Rui" /\ last.chart.zhi_shi = "Si"

\* the stem the god walk looks for on the earth plate
hour_target == IF shi_gan = "Jia" THEN jun_gan ELSE shi_gan

\* the palace k positions along the path from palace p, forward under Yang
\* and backward under Yin
along(dun, p, k) ==
    IF dun = "yang" THEN At(LUO_SHU_PATH, (IndexOf(LUO_SHU_PATH, p) + k) % 8)
                    ELSE At(LUO_SHU_PATH, (IndexOf(LUO_SHU_PATH, p) - k + 8) % 8)

god_at(p) == last.chart.palaces[p].god

\* C18: in a returned chart the god fu stands in a path palace whose
\* earth-plate stems contain the hour stem (the xun's hidden stem when the
\* hour stem is Jia), the k-th god of fu she yin he hu wu di tian (k = 1..7)
\* stands k positions further along the path 1 8 3 4 9 2 7 6 under Yang and
\* k positions back under Yin, wrapping around, and palace 5 has no god.
C18_EightGods ==
    (last.called /\ last.returned) =>
        /\ hour_target \in Range(earth(hour_palace))
        /\ hour_palace \in PathPalaces
        /\ god_at(hour_palace) = "fu"
        /\ \A k \in 1..7 :
              god_at(along(last.chart.ju_shu_info.dun, hour_palace, k)) = At(gods_order, k)
        /\ god_at(5) = ""
        /\ \A p \in PathPalaces \ {hour_palace} : god_at(p) # "fu"

\* a Yin cast whose hour stem was dealt to palace 5: fu stands in palace 2
\* and she one position back, in palace 9
C18_Witness ==
    /\ last.called /\ last.returned
    /\ last.chart.ju_shu_info.dun = "yin"
    /\ earth(5) = <<hour_target>> /\ shi_gan # "Jia"
    /\ god_at(2) = "fu" /\ god_at(9) = "she" /\ god_at(4) = "yin_" /\ god_at(7) = "tian"
    /\ god_at(5) = ""

\* the traveling star of a palace: its stars without the lodger Qin
traveling(p) == SelectSeq(last.chart.palaces[p].stars, LAMBDA x : x # "Qin")

gate_at(p) == last.chart.palaces[p].gates

\* the path palace holding the chief gate
gate_palace == CHOOSE p \in PathPalaces : gate_at(p) = last.chart.zhi_shi

\* the k-th name after a given one in a sequence of eight, wrapping around
after(order, name, k) == At(order, (IndexOf(order, name) + k) % 8)

\* C19 as claimed: counted from the palace of the chief star (of the chief
\* gate), the k-th next star (gate) of the fixed sequence stands k positions
\* forward along the path under Yang and k positions backward under Yin, as
\* the gods do.
C19_WalksFollowPolarity ==
    (last.called /\ last.returned) =>
        \A k \in 0..7 :
            /\ traveling(along(last.chart.ju_shu_info.dun, hour_palace, k))
                   = <<after(stars_order_cn, last.chart.zhi_fu, k)>>
            /\ gate_at(along(last.chart.ju_shu_info.dun, gate_palace, k))
                   = after(men_order_cn, last.chart.zhi_shi, k)

\* C19, as the code has it: the star walk and the gate walk run forward
\* along the path under either polarity: the k-th next star after the chief
\* star stands k positions forward of the hour stem's palace, the k-th next
\* gate after the chief gate k positions forward of the chief gate's
\* palace.  Only the god walk turns with the polarity.
C19_WalksForward ==
    (last.called /\ last.returned) =>
        \A k \in 0..7 :
            /\ traveling(along("yang", hour_palace, k))
                   = <<after(stars_order_cn, last.chart.zhi_fu, k)>>
            /\ gate_at(along("yang", gate_palace, k))
                   = after(men_order_cn, last.chart.zhi_shi, k)
            /\ god_at(along(last.chart.ju_shu_info.dun, hour_palace, k)) = At(gods_order, k)

\* a Yin chart: the gods run backward from palace 2 while the stars run
\* forward from it
C19_Witness ==
    /\ last.called /\ last.returned
    /\ last.chart.ju_shu_info.dun = "yin"
    /\ hour_palace = 2
    /\ god_at(9) = "she" /\ god_at(7) = "tian"
    /\ traveling(7) = <<after(stars_order_cn, last.chart.zhi_fu, 1)>>
    /\ traveling(9) = <<after(stars_order_cn, last.chart.zhi_fu, 7)>>
    /\ gate_at(along("yang", gate_palace, 1)) = after(men_order_cn, last.chart.zhi_shi, 1)

heaven(p) == last.chart.palaces[p].heaven_stems

\* the home palace of the traveling star recorded at a path palace
home_of_star_at(p) ==
    doc.jiuXing[CHOOSE i \in 1..Len(doc.jiuXing) : <<doc.jiuXing[i].cn>> = traveling(p)].guxiang

\* C20: in a returned chart the heaven-plate stems of every path palace p
\* are the whole earth-plate stem list of the home palace of the traveling
\* star recorded at p, two stems when that home is palace 2 and one
\* otherwise, and the earth plate of the chart is the plate the earth-plate
\* walk laid out, the star walk having taken nothing from it.
C20_StemsCopied ==
    (last.called /\ last.returned) =>
        /\ \A p \in PathPalaces :
              /\ Len(traveling(p)) = 1
              /\ heaven(p) = earth(home_of_star_at(p))
              /\ Len(heaven(p)) = IF home_of_star_at(p) = 2 THEN 2 ELSE 1
        /\ \A p \in 1..9 : earth(p) = _layout_di_pan(last.chart.ju_shu_info)[p]
        /\ \A p \in 1..9 : earth(p) # <<>>

\* the star Rui has traveled from palace 2 to another palace and carried
\* both stems of palace 2 there, palace 2 still listing both
C20_Witness ==
    /\ last.called /\ last.returned
    /\ traveling(2) # <<"Rui">>
    /\ \E p \in PathPalaces \ {2} :
          /\ traveling(p) = <<"Rui">>
          /\ heaven(p) = earth(2) /\ Len(heaven(p)) = 2
    /\ Len(earth(2)) = 2 /\ Len(heaven(2)) = 1

stars_at(p) == last.chart.palaces[p].stars

\* the home palace of the star Qin in the catalog
qin_home == doc.jiuXing[CHOOSE i \in 1..Len(doc.jiuXing) : doc.jiuXing[i].cn = "Qin"].guxiang

\* C21: in a returned chart exactly one of the eight path palaces lists two
\* stars, the palace the star walk gave Rui to, and its list is Rui, Qin;
\* every other path palace lists exactly one star; palace 5 lists exactly
\* Qin and its heaven-plate stems are the earth-plate stems of Qin's home
\* palace; this holds whichever star is chief.
C21_DualStarPalace ==
    (last.called /\ last.returned) =>
        /\ Cardinality({p \in PathPalaces : Len(stars_at(p)) = 2}) = 1
        /\ \A p \in PathPalaces :
              IF \E i \in 1..8 : last.walks.stars[i].palace = p /\ last.walks.stars[i].item = "Rui"
              THEN stars_at(p) = <<"Rui", "Qin">>
              ELSE /\ Len(stars_at(p)) = 1
                   /\ stars_at(p)[1] \in Range(stars_order_cn) \ {"Rui"}
        /\ stars_at(5) = <<"Qin">>
        /\ heaven(5) = earth(qin_home)
        /\ heaven(5) # <<>>

\* a chart whose chief is not Rui and in which Rui has left palace 2: the
\* palace Rui traveled to lists Rui and Qin, palace 2 lists one star
C21_Witness ==
    /\ last.called /\ last.returned
    /\ last.chart.zhi_fu = "Ying"
    /\ stars_at(7) = <<"Rui", "Qin">>
    /\ Len(stars_at(2)) = 1
    /\ stars_at(5) = <<"Qin">> /\ heaven(5) = earth(5)

\* the cyclic distance 0..11 from the branch of the xun head to the hour
\* branch
branch_offset ==
    (IndexOf(DiZhiCn, last.chart.si_zhu.shi[2])
        - IndexOf(DiZhiCn, last.chart.shi_chen_xun.zhi)) % 12

\* the home palace of the chief gate in the catalog
gate_home ==
    doc.baMen[CHOOSE i \in 1..Len(doc.baMen) : doc.baMen[i].cn = last.chart.zhi_shi].guxiang

\* home palace h shifted by the offset along the ring 1..9, up under Yang
\* and down under Yin
shifted(dun, h, offset) ==
    IF dun = "yang" THEN ((h - 1 + offset) % 9) + 1 ELSE ((h - 1 - offset) % 9) + 1

landing(dun, h, offset) == IF shifted(dun, h, offset) = 5 THEN 2 ELSE shifted(dun, h, offset)

\* C22: for every gate home h of 1 2 3 4 6 7 8 9, every offset 0..11 and
\* either polarity the chief gate lands in palace ((h-1+offset) mod 9)+1
\* under Yang and ((h-1-offset) mod 9)+1 under Yin, 5 being replaced by 2,
\* and that palace is one of the 8 path palaces; in a returned chart the
\* chief gate stands in the palace so computed from its home and from the
\* distance between the xun head's branch and the hour branch, and the gate
\* walk starts there.
C22_GateAnchor ==
    /\ \A dun \in {"yang", "yin"} : \A h \in PathPalaces : \A offset \in 0..11 :
          /\ zhi_shi_luo_gong([dun |-> dun, ju |-> 1], h, offset) = landing(dun, h, offset)
          /\ landing(dun, h, offset) \in PathPalaces
    /\ (last.called /\ last.returned) =>
          /\ gate_home \in PathPalaces
          /\ gate_at(landing(last.chart.ju_shu_info.dun, gate_home, branch_offset))
                 = last.chart.zhi_shi
          /\ last.walks.gates[1] =
                 [palace |-> landing(last.chart.ju_shu_info.dun, gate_home, branch_offset),
                  item |-> last.chart.zhi_shi]

\* a Yin cast whose chief gate is shifted down past palace 1 onto palace 5
\* and stands in palace 2
C22_Witness ==
    /\ last.called /\ last.returned
    /\ last.chart.ju_shu_info.dun = "yin"
    /\ gate_home - 1 - branch_offset < 0
    /\ shifted("yin", gate_home, branch_offset) = 5
    /\ gate_at(2) = last.chart.zhi_shi /\ gate_at(5) = ""
    /\ last.walks.gates[1].palace = 2

\* the six clash triples: stem, home palace, target branch
clash_triples ==
    {<<"Wu", 3, "mao">>, <<"Ji", 2, "wei">>, <<"Geng", 8, "yin">>,
     <<"Xin", 9, "wu">>, <<"Ren", 4, "chen">>, <<"Gui", 4, "si">>}

\* the clash records of a branch
clashes_at(z) == SelectSeq(annotations_at(z), LAMBDA a : a.type = "liuji")

\* C23: in the annotation map of a returned chart, for each of the six
\* triples (stem, home palace, target branch) the target branch carries a
\* clash record of the stem if and only if the stem occurs in the
\* heaven-plate or the earth-plate stems of the home palace; a stem on both
\* plates yields one record, not two; no branch carries more than one clash
\* record and no other branch carries any.
C23_StemClash ==
    (last.called /\ last.returned) =>
        /\ \A t \in clash_triples :
              clashes_at(t[3]) =
                  IF t[1] \in Range(heaven(t[2])) \cup Range(earth(t[2]))
                  THEN <<Anno("liuji", <<t[1], "jixing">>, FALSE)>>
                  ELSE <<>>
        /\ \A z \in Range(DiZhiCn) : Len(clashes_at(z)) <= 1
        /\ \A z \in Range(DiZhiCn) \ {t[3] : t \in clash_triples} : clashes_at(z) = <<>>

\* the stem Ji on both plates of palace 2 with one clash record at wei,
\* beside a triple whose stem is on neither plate of its palace
C23_Witness ==
    /\ last.called /\ last.returned
    /\ "Ji" \in Range(heaven(2)) /\ "Ji" \in Range(earth(2))
    /\ clashes_at("wei") = <<Anno("liuji", <<"Ji", "jixing">>, FALSE)>>
    /\ \E t \in clash_triples : clashes_at(t[3]) = <<>>

\* the four tomb tuples: home palace, stems, target branch
tomb_tuples ==
    {<<8, {"Ding", "Ji", "Geng"}, "chou">>, <<4, {"Xin", "Ren"}, "chen">>,
     <<2, {"Yi", "Gui"}, "wei">>, <<6, {"Bing", "Wu"}, "xu">>}

\* how often a stem occurs in the heaven- and earth-plate stems of a palace
occurrences(p, g) == Len(SelectSeq(heaven(p) \o earth(p), LAMBDA x : x = g))

\* the tomb records of a branch, and those among them that name stem g
tomb_records(z) == SelectSeq(annotations_at(z), LAMBDA a : a.type = "rumu")
tomb_records_of(z, g) == SelectSeq(tomb_records(z), LAMBDA a : g \in Range(a.text))

\* C24: in the annotation map of a returned chart, at each of the four tomb
\* branches chou, chen, wei and xu every tomb stem found in the heaven- and
\* earth-plate stems of the branch's palace has exactly one tomb record, a
\* double-tomb record of the stem when the stem occurs there twice and a
\* plain one when it occurs once; a stem not found has none; records of
\* different stems at one branch stay separate, each naming one stem; no
\* other branch carries a tomb record.
C24_TombMerge ==
    (last.called /\ last.returned) =>
        /\ \A t \in tomb_tuples :
              /\ \A g \in t[2] :
                    /\ occurrences(t[1], g) <= 2
                    /\ tomb_records_of(t[3], g) =
                           IF occurrences(t[1], g) = 0 THEN <<>>
                           ELSE IF occurrences(t[1], g) = 1
                           THEN <<Anno("rumu", <<g, "rumu">>, FALSE)>>
                           ELSE <<Anno("rumu", <<"shuang", g, "rumu">>, FALSE)>>
              /\ Len(tomb_records(t[3])) = Cardinality({g \in t[2] : occurrences(t[1], g) > 0})
              /\ \A i \in 1..Len(tomb_records(t[3])) :
                    Cardinality(Range(tomb_records(t[3])[i].text) \cap t[2]) = 1
        /\ \A z \in Range(DiZhiCn) \ {t[3] : t \in tomb_tuples} : tomb_records(z) = <<>>

\* a branch whose palace lists two tomb stems twice each: two double-tomb
\* records, one per stem, and no record combining them
C24_Witness ==
    /\ last.called /\ last.returned
    /\ \E t \in tomb_tuples : \E g, k \in t[2] :
          /\ g # k
          /\ occurrences(t[1], g) = 2 /\ occurrences(t[1], k) = 2
          /\ Len(tomb_records(t[3])) = 2
          /\ Anno("rumu", <<"shuang", g, "rumu">>, FALSE) \in Range(tomb_records(t[3]))
          /\ Anno("rumu", <<"shuang", k, "rumu">>, FALSE) \in Range(tomb_records(t[3]))

\* a record of the list that takes part in no merge: its kind (for a tomb
\* record, its kind and stem) occurs once in the list, and it is not one of
\* a day-void / hour-void pair
unmerged(annotation_list, a) ==
    /\ Len(SelectSeq(annotation_list,
                     LAMBDA b : b.type = a.type /\ (a.type = "rumu" => b.text = a.text))) = 1
    /\ a.type \in {"rikong", "shikong"} =>
           ~(\E b \in Range(annotation_list) : b.type \in {"rikong", "shikong"} \ {a.type})

unmerged_of(annotation_list, s) == SelectSeq(s, LAMBDA a : unmerged(annotation_list, a))

cast_rank(a) ==
    CASE a.type = "liuji" -> 1 [] a.type = "rumu" -> 2 [] a.type = "rikong" -> 3
      [] a.type = "shikong" -> 4 [] a.type = "yueling" -> 5 [] a.type = "maxing" -> 6

in_cast_order(annotation_list) ==
    \A i, j \in 1..Len(annotation_list) :
        i < j => cast_rank(annotation_list[i]) <= cast_rank(annotation_list[j])

\* what the merge pass keeps: on a list in the order a cast appends its
\* records, every record that takes part in no merge is in the output
\* unchanged and in order
C25_KeptInCastOrder ==
    (merge.called /\ in_cast_order(merge.annotation_list)) =>
        unmerged_of(merge.annotation_list, merge.new_annotations)
            = unmerged_of(merge.annotation_list, merge.annotation_list)

\* a void pair ahead of a single tomb record: the pair is merged and the
\* tomb record is missing from the output
C25_TombLost ==
    /\ merge.called
    /\ merge.annotation_list =
           <<Anno("rikong", <<"rikong">>, FALSE), Anno("shikong", <<"shikong">>, FALSE),
             Anno("rumu", <<"Ding", "rumu">>, FALSE)>>
    /\ merge.new_annotations = <<Anno("shuangkong", <<"shuang", "chou", "kong">>, FALSE)>>

\* the records of the given kinds at a branch, as chongdong targets
found_at(z, kinds) ==
    LET hits == SelectSeq(annotations_at(z), LAMBDA a : a.type \in kinds)
    IN  [i \in 1..Len(hits) |-> [type |-> hits[i].type, location_zhi |-> z, text |-> hits[i].text]]

\* those at the branches of a palace, branch after branch
found_in(g, kinds) ==
    IF Len(gong_to_zhi_list_map[g]) = 1
    THEN found_at(gong_to_zhi_list_map[g][1], kinds)
    ELSE found_at(gong_to_zhi_list_map[g][1], kinds) \o found_at(gong_to_zhi_list_map[g][2], kinds)

void_kinds == {"rikong", "shikong", "shuangkong"}

\* the four tiers: tomb records of the horse's palace, of the opposite
\* palace, void records of the horse's palace, of the opposite palace
tier(n) ==
    CASE n = 1 -> found_in(ben_gong, {"rumu"})
      [] n = 2 -> found_in(dui_gong_map[ben_gong], {"rumu"})
      [] n = 3 -> found_in(ben_gong, void_kinds)
      [] n = 4 -> found_in(dui_gong_map[ben_gong], void_kinds)

\* the same tiers with a double-void record not counted as a void record
tier_unmerged(n) ==
    CASE n = 1 -> found_in(ben_gong, {"rumu"})
      [] n = 2 -> found_in(dui_gong_map[ben_gong], {"rumu"})
      [] n = 3 -> found_in(ben_gong, {"rikong", "shikong"})
      [] n = 4 -> found_in(dui_gong_map[ben_gong], {"rikong", "shikong"})

\* C26: the chongdong targets of a returned chart are all the records of
\* the first non-empty tier, in the order tomb records of the horse's own
\* palace, tomb records of the opposite palace, void records of the own
\* palace, void records of the opposite palace, read from the final
\* annotation map, a double-void record counting as a void record of its
\* branch; records of later tiers are not mixed in, and the list is empty
\* only if neither palace carries a tomb record or a void record.
C26_TierSearch ==
    (last.called /\ last.returned) =>
        /\ \A n \in 1..4 :
              (tier(n) # <<>> /\ \A m \in 1..(n - 1) : tier(m) = <<>>) => targets = tier(n)
        /\ targets = <<>> <=> \A n \in 1..4 : tier(n) = <<>>

\* what the tier search does: it looks for tomb, day-void and hour-void
\* records only, so that a branch whose two void records were merged offers
\* no target
C26_TierSearchUnmerged ==
    (last.called /\ last.returned) =>
        /\ \A n \in 1..4 :
              (tier_unmerged(n) # <<>> /\ \A m \in 1..(n - 1) : tier_unmerged(m) = <<>>)
                  => targets = tier_unmerged(n)
        /\ targets = <<>> <=> \A n \in 1..4 : tier_unmerged(n) = <<>>

\* the horse at hai, palace 6 holding double-void records at xu and hai and
\* no tomb record in palaces 6 and 4: no target is reported
C26_DoubleVoidMissed ==
    /\ last.called /\ last.returned
    /\ last.chart.ma_xing = "hai"
    /\ tier(1) = <<>> /\ tier(2) = <<>>
    /\ Len(tier(3)) = 2 /\ tier(3)[1].type = "shuangkong"
    /\ targets = <<>>

\* the four horse groups: three hour branches, one horse branch, and the
\* palace of the horse branch
horse_groups ==
    {<<{"yin", "wu", "xu"}, "shen", 2>>, <<{"hai", "mao", "wei"}, "si", 4>>,
     <<{"shen", "zi", "chen"}, "yin", 8>>, <<{"si", "you", "chou"}, "hai", 6>>}

horse_records(z) == SelectSeq(annotations_at(z), LAMBDA a : a.type = "maxing")

\* C27: the horse map is total on the twelve branches and sends the groups
\* yin wu xu, hai mao wei, shen zi chen and si you chou to shen, si, yin and
\* hai; the horse branch of a returned chart is the one of its hour
\* branch's group, its palace is 2, 4, 8 or 6 and never 5, the opposite
\* palace is defined, and the annotation map carries exactly one horse
\* record, at the horse branch.
C27_HorseStar ==
    /\ \A z \in Range(DiZhiCn) :
          \E g \in horse_groups : z \in g[1] /\ _find_ma_xing(z) = g[2]
    /\ (last.called /\ last.returned) =>
          /\ \E g \in horse_groups :
                /\ last.chart.si_zhu.shi[2] \in g[1]
                /\ last.chart.ma_xing = g[2]
                /\ zhi_to_gong_map[last.chart.ma_xing] = g[3]
          /\ ben_gong \in {2, 4, 8, 6}
          /\ ben_gong \in DOMAIN dui_gong_map /\ dui_gong_map[ben_gong] = 10 - ben_gong
          /\ \A z \in Range(DiZhiCn) :
                horse_records(z) = IF z = last.chart.ma_xing
                                   THEN <<Anno("maxing", <<"maxing">>, FALSE)>> ELSE <<>>

\* the hour branch chou: the horse is at hai, palace 6, opposite palace 4,
\* and the horse record stands at hai behind a void record
C27_Witness ==
    /\ last.called /\ last.returned
    /\ last.chart.si_zhu.shi[2] = "chou" /\ last.chart.ma_xing = "hai"
    /\ ben_gong = 6 /\ dui_gong_map[ben_gong] = 4
    /\ Len(annotations_at("hai")) = 2 /\ voids("hai") # <<>>
    /\ annotations_at("hai")[2] = Anno("maxing", <<"maxing">>, FALSE)
    /\ horse_records("si") = <<>>

\* the earth plates the layout can produce: either polarity, patterns 1..9
earth_plates == {_layout_di_pan([dun |-> dun, ju |-> ju]) : dun \in {"yang", "yin"}, ju \in 1..9}

\* C28: on every earth plate the layout can produce and for every stem the
\* stem lookup answers a palace of the flying path and never palace 5: the
\* stem dealt to palace 5 is also listed in palace 2, where the ascending
\* scan meets it first; the same holds for the stem Jia, looked up under the
\* hidden stem of its xun.  In a returned chart the god walk and the star
\* walk therefore start on the path, and the palace the chief is read at is
\* not palace 5.
C28_LookupAvoidsCenter ==
    /\ \A plate \in earth_plates : \A stem \in Range(stems_order) :
          /\ scan_di_pan(stem, plate) \in PathPalaces
          /\ stem \in Range(plate[scan_di_pan(stem, plate)])
          /\ stem \in Range(plate[5]) => (stem \in Range(plate[2]) /\ scan_di_pan(stem, plate) = 2)
          /\ _find_stem_palace(stem, plate, [zhi |-> "zi", jun |-> "Wu"]) = scan_di_pan(stem, plate)
          /\ _find_stem_palace("Jia", plate, [zhi |-> "zi", jun |-> stem]) = scan_di_pan(stem, plate)
    /\ (last.called /\ last.returned) =>
          /\ \A stem \in Range(stems_order) : holder(stem) \in PathPalaces
          /\ hour_palace # 5 /\ holder(jun_gan) # 5
          /\ earth(5) \in {<<hour_target>>, <<jun_gan>>} => earth(2)[2] = earth(5)[1]
          /\ last.walks.gods[1].palace = hour_palace
          /\ last.walks.stars[1].palace = hour_palace
          /\ IndexOf(LUO_SHU_PATH, hour_palace) # -1

\* a Yang cast whose hour stem was dealt to palace 5 and whose xun stem
\* lies elsewhere: the lookup answers palace 2 and both walks start there
C28_Witness ==
    /\ last.called /\ last.returned
    /\ last.chart.ju_shu_info.dun = "yang"
    /\ earth(5) = <<hour_target>> /\ jun_gan # hour_target
    /\ hour_palace = 2 /\ holder(jun_gan) \notin {2, 5}
    /\ last.walks.gods[1].palace = 2 /\ last.walks.stars[1].palace = 2

\* the homes of the traveling stars in the catalog of the document
traveling_homes ==
    {<<doc.jiuXing[i].cn, doc.jiuXing[i].guxiang>> : i \in 1..Len(doc.jiuXing)}
        \ {<<"Qin", 5>>}

\* the catalog of the document gives the traveling stars the homes Peng 1,
\* Ren_ 8, Chong 3, Fu 4, Ying 9, Rui 2, Zhu 7, Xin_ 6
usual_homes ==
    traveling_homes =
        {<<"Peng", 1>>, <<"Ren_", 8>>, <<"Chong", 3>>, <<"Fu", 4>>,
         <<"Ying", 9>>, <<"Rui", 2>>, <<"Zhu", 7>>, <<"Xin_", 6>>}

\* C29 as claimed: in a returned chart cast with the usual star homes, a
\* palace whose earth-plate stems contain the hour stem (the xun's hidden
\* stem when the hour stem is Jia) has the chief star among its heaven-plate
\* stars and the xun's hidden stem among its heaven-plate stems.
C29_ChiefOnEveryHolder ==
    (last.called /\ last.returned /\ usual_homes) =>
        \A p \in 1..9 :
            hour_target \in Range(earth(p)) =>
                /\ last.chart.zhi_fu \in Range(stars_at(p))
                /\ jun_gan \in Range(heaven(p))

\* C29, as the code has it: in a returned chart cast with the usual star
\* homes, the lowest-numbered palace whose earth-plate stems contain the
\* hour stem (the xun's hidden stem when the hour stem is Jia), which is the
\* palace the stem lookup yields, has the chief star among its heaven-plate
\* stars and the xun's hidden stem among its heaven-plate stems.  Palace 5
\* lists its own stem as well as palace 2 does, but holds only the star Qin:
\* when the hour stem was dealt to palace 5, the chief star stands in
\* palace 2.
C29_ChiefOnHourStem ==
    (last.called /\ last.returned) =>
        /\ usual_homes
        /\ hour_target \in Range(earth(hour_palace))
        /\ last.chart.zhi_fu \in Range(stars_at(hour_palace))
        /\ jun_gan \in Range(heaven(hour_palace))
        /\ \A p \in 1..9 \ {hour_palace} :
              hour_target \in Range(earth(p)) =>
                  /\ p = 5 /\ hour_palace = 2
                  /\ last.chart.zhi_fu \notin Range(stars_at(p))

\* an hour stem, neither Jia nor the xun's hidden stem, that was dealt to
\* palace 5: the chief star stands in palace 2 with the hidden stem, and
\* palace 5 holds Qin alone
C29_Witness ==
    /\ last.called /\ last.returned
    /\ shi_gan \notin {"Jia", jun_gan}
    /\ earth(5) = <<shi_gan>> /\ hour_palace = 2
    /\ holder(jun_gan) # 2
    /\ stars_at(2) = <<last.chart.zhi_fu>> /\ stars_at(5) = <<"Qin">>
    /\ jun_gan \in Range(heaven(2)) /\ jun_gan \notin Range(earth(2))

layers == the_case.self.annotation_layers
active == the_case.self.active_layer_index
called_with == the_case.call
layers_before == the_case.call.before.annotation_layers

\* the call was given an index outside 0 .. number of layers - 1
out_of_range == called_with.layer_index < 0 \/ called_with.layer_index >= Len(layers_before)

\* C30: after any sequence of add_layer, remove_layer, set_active_layer,
\* rename_layer and set_layer_visibility calls on a Case, with valid or
\* invalid indices, the Case has at least one layer and
\* 0 <= active_layer_index < number of layers; remove_layer on the only
\* layer, and any of the four indexed calls with an out-of-range index,
\* returns False and changes nothing; and removing a layer other than the
\* active one leaves the same layer active.
C30_LayersKept ==
    the_case.state = "made" =>
        /\ Len(layers) >= 1
        /\ 0 <= active /\ active < Len(layers)
        /\ get_active_layer(the_case.self) # <<>>
        /\ (called_with.op = "remove_layer" /\ Len(layers_before) = 1) =>
               (~called_with.ret /\ the_case.self = called_with.before)
        /\ (called_with.op \in {"remove_layer", "rename_layer", "set_layer_visibility",
                                "set_active_layer"} /\ out_of_range) =>
               (~called_with.ret /\ the_case.self = called_with.before)
        /\ (called_with.op = "remove_layer" /\ called_with.ret
                /\ called_with.layer_index # called_with.before.active_layer_index) =>
               layers[active + 1] = layers_before[called_with.before.active_layer_index + 1]

\* the last of three layers was active and the first was removed: the index
\* went from 2 to 1 and the same layer is active
C30_Witness ==
    /\ the_case.state = "made"
    /\ called_with.op = "remove_layer" /\ called_with.ret /\ called_with.layer_index = 0
    /\ Len(layers_before) = 3 /\ called_with.before.active_layer_index = 2
    /\ Len(layers) = 2 /\ active = 1
    /\ layers[2] = layers_before[3]

\* remove_layer(0) on the only layer, refused
C30_WitnessRefused ==
    /\ the_case.state = "made"
    /\ called_with.op = "remove_layer" /\ called_with.layer_index = 0
    /\ Len(layers_before) = 1 /\ ~called_with.ret /\ Len(layers) = 1 /\ active = 0

====
